---- MODULE Spec2Model ----
(***************************************************************************)
(* Sphinx RST -> Markdown converter (SphinxConverter, file-handler.ts) and *)
(* the LLM optimizer / chunker (LLMOptimizer, llm-optimizer.ts).           *)
(*                                                                         *)
(* A text is a sequence of characters, each character a string.  The       *)
(* source writes most of its separators and patterns with a doubled        *)
(* backslash ('\\n', /\\s+/, ...): in TypeScript these denote the two      *)
(* characters backslash + letter, not a line feed or a whitespace class.   *)
(* The model keeps both apart: NL is the line feed, BS the backslash.      *)
(***************************************************************************)
EXTENDS Integers, Sequences, FiniteSets, TLC

VARIABLES
    \* ---- LLMOptimizer.chunkContent -------------------------------------
    cpc,            \* position in chunkContent
    markdown,       \* its argument
    chunkSize,      \* opts.chunkSize
    sections,       \* const sections = this.splitByHeaders(markdown)
    sectionPos,     \* how many sections the for-loop has handled
    chunks,         \* const chunks
    currentChunk,   \* let currentChunk (Null or a chunk)
    chunkIndex,     \* let chunkIndex
    subChunks,      \* const subChunks of the latest oversized section
    returned,       \* the value chunkContent returns
    chunkCalls,     \* how many calls of chunkContent this optimizer has begun
    \* ---- SphinxConverter (one instance) -------------------------------
    docReferences,  \* private docReferences: Map
    crossReferences,\* private crossReferences: Map
    vpc,            \* position in convertToMarkdown
    content,        \* its argument content
    options,        \* its argument options
    preprocessed,   \* const preprocessed
    rstLines,       \* parseRST: const lines
    result,         \* parseRST: const result (title, sections, directives)
    currentSection, \* parseRST: let currentSection (index into result.sections, 0: null)
    idx,            \* parseRST: let i
    rendered,       \* const markdown = this.convertParsedToMarkdown(...)
    postProcessed,  \* const postProcessed, the value returned
    calls,          \* the calls this instance has completed: content, options, output
    \* ---- LLMOptimizer.optimize ----------------------------------------
    opc,            \* position in optimize
    optMarkdown,    \* its argument markdown
    opts,           \* const opts
    optimized,      \* let optimized
    pass,           \* which call of optimize this is (the caller feeds the result back)
    firstOutput,    \* what the first call returned
    \* ---- the tool handlers of index.ts and the commands of cli.ts ------
    hpc,            \* position in the handler
    entry,          \* the tool or command that runs
    args,           \* the options of the request (a key may be absent)
    documents,      \* the documents to convert: rstFiles, pages, or the one file
    docPos,         \* how many documents the handler has left behind
    written,        \* the output files written so far
    response,       \* what the handler answers (Null: nothing yet)
    \* ---- crawlSphinxSite of cli.ts ------------------------------------
    kpc,            \* position in crawlSphinxSite
    baseUrl,        \* its argument baseUrl, parsed: hostname and pathname
    maxDepth,       \* its argument maxDepth
    site,           \* the web site that answers the requests
    queue,          \* const queue
    visited,        \* const visited
    pages,          \* const pages
    fetched         \* the URLs handed to axios.get, in order

chunkVars == <<cpc, markdown, chunkSize, sections, sectionPos, chunks,
               currentChunk, chunkIndex, subChunks, returned, chunkCalls>>

convVars == <<docReferences, crossReferences, vpc, content, options, preprocessed,
              rstLines, result, currentSection, idx, rendered, postProcessed, calls>>

optVars == <<opc, optMarkdown, opts, optimized, pass, firstOutput>>

crawlVars == <<kpc, baseUrl, maxDepth, site, queue, visited, pages, fetched>>

toolVars == <<hpc, entry, args, documents, docPos, written, response, crawlVars>>

vars == <<chunkVars, convVars, optVars, toolVars>>

----------------------------------------------------------------------------
(* Characters and texts *)

NL == "\n"
BS == "\\"
\* the backtick
BT == "backtick"
\* '\\n' as the source writes it: a backslash followed by the letter n
BSN == <<BS, "n">>
\* '\\n\\n'
BSNBSN == <<BS, "n", BS, "n">>

Null == [isNull |-> TRUE]

MinOf(S) == CHOOSE m \in S : \A k \in S : m <= k
MaxOf(S) == CHOOSE m \in S : \A k \in S : m >= k

\* the characters String.prototype.trim removes
IsWhite(c) == c \in {" ", NL, "\t", "\r"}

\* String.prototype.trim
Trim(s) ==
    LET keep == {i \in 1..Len(s) : ~IsWhite(s[i])}
    IN  IF keep = {} THEN <<>> ELSE SubSeq(s, MinOf(keep), MaxOf(keep))

\* whether p occurs in s at index i
MatchAt(s, p, i) ==
    /\ i >= 1
    /\ i + Len(p) - 1 <= Len(s)
    /\ \A k \in 1..Len(p) : s[i + k - 1] = p[k]

\* String.prototype.indexOf (1-based; 0 when absent)
IndexOf(s, p, from) ==
    LET hits == {j \in from..(Len(s) - Len(p) + 1) : MatchAt(s, p, j)}
    IN  IF hits = {} THEN 0 ELSE MinOf(hits)

\* String.prototype.includes
Includes(s, p) == IndexOf(s, p, 1) # 0

\* String.prototype.split with a non-empty string separator
RECURSIVE Split(_, _)
Split(s, sep) ==
    LET j == IndexOf(s, sep, 1)
    IN  IF j = 0 THEN <<s>>
        ELSE <<SubSeq(s, 1, j - 1)>> \o Split(SubSeq(s, j + Len(sep), Len(s)), sep)

\* Array.prototype.join
RECURSIVE Join(_, _)
Join(parts, sep) ==
    IF Len(parts) = 0 THEN <<>>
    ELSE IF Len(parts) = 1 THEN parts[1]
    ELSE parts[1] \o sep \o Join(Tail(parts), sep)

\* the decimal digits of a template-literal number
RECURSIVE Digits(_)
Digits(n) ==
    LET DigitChar == <<"0", "1", "2", "3", "4", "5", "6", "7", "8", "9">>
    IN  IF n < 10 THEN <<DigitChar[n + 1]>>
        ELSE Digits(n \div 10) \o <<DigitChar[(n % 10) + 1]>>

\* the end of the run of character c that starts at index i (i - 1: no run)
RECURSIVE RunEnd(_, _, _)
RunEnd(s, c, i) ==
    IF i <= Len(s) /\ s[i] = c THEN RunEnd(s, c, i + 1) ELSE i - 1

\* s up to, not including, its first line terminator: what '.' can match
UpToLineEnd(s) ==
    LET j == IndexOf(s, <<NL>>, 1)
        k == IndexOf(s, <<"\r">>, 1)
        ends == {e \in {j, k} : e # 0}
    IN  IF ends = {} THEN s ELSE SubSeq(s, 1, MinOf(ends) - 1)

----------------------------------------------------------------------------
(* LLMOptimizer: word count, header split, paragraph split *)

\* text.split(/\\s+/): the separator is a backslash followed by one or
\* more letters s
RECURSIVE SplitWords(_)
SplitWords(t) ==
    LET hits == {j \in 1..(Len(t) - 1) : t[j] = BS /\ t[j + 1] = "s"}
    IN  IF hits = {} THEN <<t>>
        ELSE LET j == MinOf(hits)
                 e == RunEnd(t, "s", j + 1)
             IN  <<SubSeq(t, 1, j - 1)>> \o SplitWords(SubSeq(t, e + 1, Len(t)))

countWords(text) == Len(SplitWords(Trim(text)))

\* line.match(/^(#{1,6})\\s+(.+)/): one to six '#', a backslash, one or
\* more letters s, then at least one character that is no line terminator
HeaderMatch(line) ==
    LET h == RunEnd(line, "#", 1)
        e == RunEnd(line, "s", h + 2)
        r == e - (h + 1)
        rest == SubSeq(line, e + 1, Len(line))
    IN  IF ~(h >= 1 /\ h <= 6 /\ h + 1 <= Len(line) /\ line[h + 1] = BS /\ r >= 1)
        THEN [ok |-> FALSE, level |-> 0, title |-> <<>>]
        ELSE IF UpToLineEnd(rest) # <<>>
        THEN [ok |-> TRUE, level |-> h, title |-> UpToLineEnd(rest)]
        ELSE IF r >= 2
        THEN [ok |-> TRUE, level |-> h, title |-> <<"s">>]
        ELSE [ok |-> FALSE, level |-> 0, title |-> <<>>]

Introduction == <<"I", "n", "t", "r", "o", "d", "u", "c", "t", "i", "o", "n">>

\* the for-loop of splitByHeaders over lines[k..], with its two locals
RECURSIVE SplitLoop(_, _, _, _)
SplitLoop(lines, k, secs, cur) ==
    IF k > Len(lines)
    THEN IF cur = Null THEN secs ELSE Append(secs, cur)
    ELSE LET line == lines[k]
             m == HeaderMatch(line)
         IN  IF m.ok
             THEN SplitLoop(lines, k + 1,
                            IF cur = Null THEN secs ELSE Append(secs, cur),
                            [title |-> m.title, content |-> line, level |-> m.level])
             ELSE IF cur # Null
             THEN SplitLoop(lines, k + 1, secs,
                            [cur EXCEPT !.content = @ \o BSN \o line])
             ELSE IF Len(secs) = 0
             THEN SplitLoop(lines, k + 1,
                            <<[title |-> Introduction, content |-> line, level |-> 1]>>,
                            cur)
             ELSE SplitLoop(lines, k + 1,
                            [secs EXCEPT ![1].content = @ \o BSN \o line], cur)

splitByHeaders(md) == SplitLoop(Split(md, BSN), 1, <<>>, Null)


\* a piece as splitLargeSection pushes it
Piece(section, text, index, suffixed) ==
    [id |-> section.title \o <<"-">> \o Digits(index),
     title |-> IF suffixed
               THEN section.title \o <<" ", "(", "P", "a", "r", "t", " ">>
                    \o Digits(index) \o <<")">>
               ELSE section.title,
     content |-> Trim(text),
     wordCount |-> countWords(text),
     metadata |-> [partOf |-> section.title]]

\* mutant of FitsPiece: the word budget is not tested
FitsPiece_NoBudget(cur, paragraph, maxSize) == cur # <<>>

\* the merge test of splitLargeSection; currentChunk is truthy when non-empty
FitsPiece(cur, paragraph, maxSize) ==
    countWords(cur) + countWords(paragraph) <= maxSize /\ cur # <<>>

\* the for-loop of splitLargeSection over paragraphs[k..], then its tail
RECURSIVE LargeLoop(_, _, _, _, _, _)
LargeLoop(section, maxSize, paragraphs, k, out, cur) ==
    IF k > Len(paragraphs)
    THEN IF Trim(cur) # <<>>
         THEN Append(out, Piece(section, cur, Len(out) + 1, Len(out) + 1 > 1))
         ELSE out
    ELSE LET paragraph == paragraphs[k]
         IN  IF FitsPiece(cur, paragraph, maxSize)
             THEN LargeLoop(section, maxSize, paragraphs, k + 1, out,
                            cur \o BSNBSN \o paragraph)
             ELSE LargeLoop(section, maxSize, paragraphs, k + 1,
                            IF Trim(cur) # <<>>
                            THEN Append(out, Piece(section, cur, Len(out) + 1, TRUE))
                            ELSE out,
                            paragraph)

\* mutant of splitLargeSection: the last piece is not returned
splitLargeSection_DropLast(section, maxSize) ==
    LET all == LargeLoop(section, maxSize, Split(section.content, BSNBSN), 1, <<>>, <<>>)
    IN  SubSeq(all, 1, Len(all) - 1)

splitLargeSection(section, maxSize) ==
    LargeLoop(section, maxSize, Split(section.content, BSNBSN), 1, <<>>, <<>>)

ChunkPrefix == <<"c", "h", "u", "n", "k", "-">>

\* the chunk chunkContent pushes for one piece of an oversized section
SubsectionChunk(section, subChunk, index) ==
    [id |-> ChunkPrefix \o Digits(index),
     title |-> subChunk.title,
     content |-> subChunk.content,
     wordCount |-> subChunk.wordCount,
     metadata |-> [parentSection |-> section.title, chunkType |-> "subsection"]]

\* the chunk chunkContent starts for a section that fits
SectionChunk(section, sectionWordCount, index) ==
    [id |-> ChunkPrefix \o Digits(index),
     title |-> IF section.title # <<>> THEN section.title
               ELSE <<"C", "h", "u", "n", "k", " ">> \o Digits(index),
     content |-> section.content,
     wordCount |-> sectionWordCount,
     metadata |-> [sections |-> <<section.title>>, chunkType |-> "section"]]

\* mutant of FitsChunk: the running chunk's own words are not counted
FitsChunk_SectionOnly(cur, sectionWordCount, size) ==
    cur # Null /\ sectionWordCount <= size

\* the merge test of chunkContent
FitsChunk(cur, sectionWordCount, size) ==
    cur # Null /\ cur.wordCount + sectionWordCount <= size

\* addChunkContext that names the chunk itself as the previous one
addChunkContext_OwnTitle(cs) ==
    [index \in 1..Len(cs) |->
        [id |-> cs[index].id,
         title |-> cs[index].title,
         content |-> cs[index].content,
         wordCount |-> cs[index].wordCount,
         metadata |-> cs[index].metadata,
         context |->
            IF Len(cs) > 1
            THEN <<"D", "o", "c", "u", "m", "e", "n", "t", " ", "p", "a", "r", "t", " ">>
                 \o Digits(index) \o <<" ", "o", "f", " ">> \o Digits(Len(cs))
                 \o (IF index > 1
                     THEN <<" ", "|", " ", "P", "r", "e", "v", "i", "o", "u", "s", ":", " ", "\"">>
                          \o cs[index].title \o <<"\"">>
                     ELSE <<>>)
                 \o (IF index < Len(cs)
                     THEN <<" ", "|", " ", "N", "e", "x", "t", ":", " ", "\"">>
                          \o cs[index + 1].title \o <<"\"">>
                     ELSE <<>>)
            ELSE <<>>]]

\* addChunkContext: chunks.map((chunk, index) => ({...chunk, context}))
addChunkContext(cs) ==
    [index \in 1..Len(cs) |->
        [id |-> cs[index].id,
         title |-> cs[index].title,
         content |-> cs[index].content,
         wordCount |-> cs[index].wordCount,
         metadata |-> cs[index].metadata,
         context |->
            IF Len(cs) > 1
            THEN <<"D", "o", "c", "u", "m", "e", "n", "t", " ", "p", "a", "r", "t", " ">>
                 \o Digits(index) \o <<" ", "o", "f", " ">> \o Digits(Len(cs))
                 \o (IF index > 1
                     THEN <<" ", "|", " ", "P", "r", "e", "v", "i", "o", "u", "s", ":", " ", "\"">>
                          \o cs[index - 1].title \o <<"\"">>
                     ELSE <<>>)
                 \o (IF index < Len(cs)
                     THEN <<" ", "|", " ", "N", "e", "x", "t", ":", " ", "\"">>
                          \o cs[index + 1].title \o <<"\"">>
                     ELSE <<>>)
            ELSE <<>>]]

----------------------------------------------------------------------------
(* chunkContent, one action per step of its body *)

\* const sections = this.splitByHeaders(markdown)
SplitMarkdown ==
    /\ cpc = "start"
    /\ sections' = splitByHeaders(markdown)
    /\ cpc' = "loop"
    /\ UNCHANGED <<markdown, chunkSize, sectionPos, chunks, currentChunk,
                   chunkIndex, subChunks, returned>>
    /\ UNCHANGED <<chunkCalls, convVars, optVars, toolVars>>

\* loop body, first branch: the section joins the running chunk
MergeSection ==
    /\ cpc = "loop"
    /\ sectionPos < Len(sections)
    /\ LET section == sections[sectionPos + 1]
           sectionWordCount == countWords(section.content)
       IN  /\ FitsChunk(currentChunk, sectionWordCount, chunkSize)
           /\ currentChunk' =
                [currentChunk EXCEPT
                    !.content = @ \o BSNBSN \o section.content,
                    !.wordCount = @ + sectionWordCount,
                    !.metadata.sections = Append(@, section.title)]
    /\ sectionPos' = sectionPos + 1
    /\ UNCHANGED <<cpc, markdown, chunkSize, sections, chunks, chunkIndex,
                   subChunks, returned>>
    /\ UNCHANGED <<chunkCalls, convVars, optVars, toolVars>>

\* SplitSection that pushes the pieces before the running chunk
SplitSection_PiecesFirst ==
    /\ cpc = "loop"
    /\ sectionPos < Len(sections)
    /\ LET section == sections[sectionPos + 1]
           sectionWordCount == countWords(section.content)
           pieces == splitLargeSection(section, chunkSize)
       IN  /\ ~FitsChunk(currentChunk, sectionWordCount, chunkSize)
           /\ sectionWordCount > chunkSize
           /\ subChunks' = pieces
           /\ chunks' = chunks \o
                [k \in 1..Len(pieces) |->
                    SubsectionChunk(section, pieces[k], chunkIndex + k)]
                \o (IF currentChunk # Null THEN <<currentChunk>> ELSE <<>>)
           /\ chunkIndex' = chunkIndex + Len(pieces)
    /\ currentChunk' = Null
    /\ sectionPos' = sectionPos + 1
    /\ UNCHANGED <<cpc, markdown, chunkSize, sections, returned>>
    /\ UNCHANGED <<chunkCalls, convVars, optVars, toolVars>>

\* loop body, second branch, oversized section: close the running chunk,
\* push one chunk per piece of splitLargeSection
SplitSection ==
    /\ cpc = "loop"
    /\ sectionPos < Len(sections)
    /\ LET section == sections[sectionPos + 1]
           sectionWordCount == countWords(section.content)
           closed == IF currentChunk # Null THEN Append(chunks, currentChunk) ELSE chunks
           pieces == splitLargeSection(section, chunkSize)
       IN  /\ ~FitsChunk(currentChunk, sectionWordCount, chunkSize)
           /\ sectionWordCount > chunkSize
           /\ subChunks' = pieces
           /\ chunks' = closed \o
                [k \in 1..Len(pieces) |->
                    SubsectionChunk(section, pieces[k], chunkIndex + k)]
           /\ chunkIndex' = chunkIndex + Len(pieces)
    /\ currentChunk' = Null
    /\ sectionPos' = sectionPos + 1
    /\ UNCHANGED <<cpc, markdown, chunkSize, sections, returned>>
    /\ UNCHANGED <<chunkCalls, convVars, optVars, toolVars>>

\* loop body, second branch, section that fits: close the running chunk and
\* start a new one
StartChunk ==
    /\ cpc = "loop"
    /\ sectionPos < Len(sections)
    /\ LET section == sections[sectionPos + 1]
           sectionWordCount == countWords(section.content)
       IN  /\ ~FitsChunk(currentChunk, sectionWordCount, chunkSize)
           /\ ~(sectionWordCount > chunkSize)
           /\ chunks' = IF currentChunk # Null THEN Append(chunks, currentChunk)
                        ELSE chunks
           /\ currentChunk' = SectionChunk(section, sectionWordCount, chunkIndex + 1)
    /\ chunkIndex' = chunkIndex + 1
    /\ sectionPos' = sectionPos + 1
    /\ UNCHANGED <<cpc, markdown, chunkSize, sections, subChunks, returned>>
    /\ UNCHANGED <<chunkCalls, convVars, optVars, toolVars>>

\* after the loop: push the last chunk, return addChunkContext(chunks)
FinishChunks ==
    /\ cpc = "loop"
    /\ sectionPos = Len(sections)
    /\ chunks' = IF currentChunk # Null THEN Append(chunks, currentChunk) ELSE chunks
    /\ returned' = addChunkContext(chunks')
    /\ cpc' = "done"
    /\ UNCHANGED <<markdown, chunkSize, sections, sectionPos, currentChunk,
                   chunkIndex, subChunks>>
    /\ UNCHANGED <<chunkCalls, convVars, optVars, toolVars>>

----------------------------------------------------------------------------
(* The inputs of chunkContent *)

MaxChunkFragments == 3
MaxChunkSize == 3
MaxChunkCalls == 2

\* fragments of Markdown: a word, three units of the word count, a heading
\* as HeaderMatch recognises it, white space, nothing, and ordinary Markdown
\* with a line feed
ChunkFragments ==
    { <<"a">>,
      <<"a", BS, "s", "b", BS, "s", "c">>,
      <<"#", BS, "s", "T">>,
      <<" ">>,
      <<>>,
      <<"#", " ", "T", NL, "a", " ", "b">> }

\* one to MaxChunkFragments fragments, joined by the line separator or the
\* paragraph separator
ChunkDocs ==
    LET RECURSIVE ChunkDocsOfLen(_)
        ChunkDocsOfLen(n) ==
            IF n <= 1 THEN ChunkFragments
            ELSE {d \o sep \o f : d \in ChunkDocsOfLen(n - 1),
                                  sep \in {BSN, BSNBSN}, f \in ChunkFragments}
    IN  UNION {ChunkDocsOfLen(n) : n \in 1..MaxChunkFragments}

\* the components a specification does not exercise stay as constructed
ChunkIdle ==
    /\ cpc = "idle"
    /\ markdown = <<>>
    /\ chunkSize = 0
    /\ sections = <<>>
    /\ sectionPos = 0
    /\ chunks = <<>>
    /\ currentChunk = Null
    /\ chunkIndex = 0
    /\ subChunks = <<>>
    /\ returned = <<>>
    /\ chunkCalls = 0

ConvIdle ==
    /\ docReferences = {}
    /\ crossReferences = {}
    /\ vpc = "idle"
    /\ content = <<>>
    /\ options = [preserveReferences |-> FALSE]
    /\ preprocessed = <<>>
    /\ rstLines = <<>>
    /\ result = [title |-> <<>>, sections |-> <<>>, directives |-> <<>>]
    /\ currentSection = 0
    /\ idx = 0
    /\ rendered = <<>>
    /\ postProcessed = <<>>
    /\ calls = <<>>

OptIdle ==
    /\ opc = "idle"
    /\ optMarkdown = <<>>
    /\ opts = [simplifyStructure |-> FALSE, removeRedundancy |-> FALSE,
               addContextHeaders |-> FALSE]
    /\ optimized = <<>>
    /\ pass = 0
    /\ firstOutput = <<>>

CrawlIdle ==
    /\ kpc = "idle"
    /\ baseUrl = Null
    /\ maxDepth = 0
    /\ site = "none"
    /\ queue = <<>>
    /\ visited = {}
    /\ pages = <<>>
    /\ fetched = <<>>

ToolIdle ==
    /\ hpc = "idle"
    /\ entry = "none"
    /\ args = <<>>
    /\ documents = <<>>
    /\ docPos = 0
    /\ written = {}
    /\ response = Null
    /\ CrawlIdle

InitChunk ==
    /\ cpc = "start"
    /\ markdown \in ChunkDocs
    /\ chunkSize \in 1..MaxChunkSize
    /\ sections = <<>>
    /\ sectionPos = 0
    /\ chunks = <<>>
    /\ currentChunk = Null
    /\ chunkIndex = 0
    /\ subChunks = <<>>
    /\ returned = <<>>
    /\ chunkCalls = 1
    /\ ConvIdle
    /\ OptIdle
    /\ ToolIdle

\* what a later call leaves of the optimizer when its counter is a field of
\* the instance instead of a local
ChunkAgain_SharedCounter ==
    /\ cpc = "done"
    /\ chunkCalls < MaxChunkCalls
    /\ sections' = <<>>
    /\ sectionPos' = 0
    /\ chunks' = <<>>
    /\ currentChunk' = Null
    /\ subChunks' = <<>>
    /\ returned' = <<>>
    /\ chunkCalls' = chunkCalls + 1
    /\ cpc' = "start"
    /\ UNCHANGED <<markdown, chunkSize, chunkIndex>>
    /\ UNCHANGED <<convVars, optVars, toolVars>>

\* the caller repeats the call on the same optimizer: chunks, currentChunk
\* and chunkIndex are locals, declared anew by every call
ChunkAgain ==
    /\ cpc = "done"
    /\ chunkCalls < MaxChunkCalls
    /\ sections' = <<>>
    /\ sectionPos' = 0
    /\ chunks' = <<>>
    /\ currentChunk' = Null
    /\ chunkIndex' = 0
    /\ subChunks' = <<>>
    /\ returned' = <<>>
    /\ chunkCalls' = chunkCalls + 1
    /\ cpc' = "start"
    /\ UNCHANGED <<markdown, chunkSize>>
    /\ UNCHANGED <<convVars, optVars, toolVars>>

NextChunk ==
    \/ SplitMarkdown
    \/ MergeSection
    \/ SplitSection
    \/ StartChunk
    \/ FinishChunks
    \/ ChunkAgain

SpecChunk == InitChunk /\ [][NextChunk]_vars

----------------------------------------------------------------------------
(* Properties of chunkContent *)

IsNonBlank(line) == line # <<>>

\* the lines of a text (as splitByHeaders cuts them), trimmed, blank ones left out
NonBlankLines(text) ==
    LET ls == Split(text, BSN)
    IN  SelectSeq([k \in 1..Len(ls) |-> Trim(ls[k])], IsNonBlank)

RECURSIVE ChunkLines(_)
ChunkLines(cs) ==
    IF Len(cs) = 0 THEN <<>>
    ELSE NonBlankLines(cs[1].content) \o ChunkLines(Tail(cs))

\* the units splitLargeSection never cuts
Paragraphs(text) == Split(text, BSNBSN)

NonBlankParagraphs(text) ==
    SelectSeq([k \in 1..Len(Paragraphs(text)) |-> Trim(Paragraphs(text)[k])], IsNonBlank)

\* every chunk built so far
AllChunks ==
    chunks \o (IF currentChunk # Null /\ cpc # "done" THEN <<currentChunk>> ELSE <<>>)

\* the section the loop handled last, and whether it was oversized
LastSection == sections[sectionPos]
LastOversized ==
    /\ cpc \in {"loop", "done"}
    /\ sectionPos >= 1
    /\ countWords(LastSection.content) > chunkSize

\* the chunks emitted for the section handled last, when it was oversized
EmittedForLast ==
    SubSeq(chunks, Len(chunks) - Len(subChunks) + 1, Len(chunks))

WithinBudget(c) == c.wordCount <= chunkSize

\* a chunk that is one single paragraph, by itself over the budget
SingleOversizedParagraph(c) ==
    /\ c.metadata.chunkType = "subsection"
    /\ Len(Paragraphs(c.content)) = 1
    /\ countWords(c.content) > chunkSize

\* a piece is a run of whole consecutive paragraphs of its section
WholeParagraphs(piece, text) ==
    \E a \in 1..Len(Paragraphs(text)) : \E b \in a..Len(Paragraphs(text)) :
        piece.content = Trim(Join(SubSeq(Paragraphs(text), a, b), BSNBSN))

C6_Reconstruction ==
    cpc = "done" => ChunkLines(returned) = NonBlankLines(markdown)

\* C6 witness: a finished call over an input of at least three non-blank
\* lines that split an oversized section and merged two of its paragraphs.
C6_Witness ==
    /\ cpc = "done"
    /\ Len(NonBlankLines(markdown)) >= 3
    /\ Len(returned) >= 2
    /\ \E i \in 1..Len(returned) :
          /\ returned[i].metadata.chunkType = "subsection"
          /\ Len(Paragraphs(returned[i].content)) > 1

C8_PartOf ==
    (cpc = "done" /\ LastOversized) =>
        \A i \in 1..(Len(subChunks) - 1) :
            LET c == returned[Len(returned) - Len(subChunks) + i]
            IN  /\ "partOf" \in DOMAIN c.metadata
                /\ c.metadata.partOf = LastSection.title

----------------------------------------------------------------------------
(* SphinxConverter.preprocessRST *)

\* a line terminator: what '.' does not match, where ^ and $ anchor under /m
IsTerminator(c) == c \in {NL, "\r"}

\* the end of the run of characters of set S that starts at index k (k - 1: no run)
RECURSIVE RunEndIn(_, _, _)
RunEndIn(s, S, k) ==
    IF k <= Len(s) /\ s[k] \in S THEN RunEndIn(s, S, k + 1) ELSE k - 1

\* the end of the run of white space (\s*) that starts at index k
RECURSIVE WhiteEnd(_, _)
WhiteEnd(s, k) ==
    IF k <= Len(s) /\ IsWhite(s[k]) THEN WhiteEnd(s, k + 1) ELSE k - 1

\* the end of the line that holds index k: the last index before its terminator
RECURSIVE LineEnd(_, _)
LineEnd(s, k) ==
    IF k <= Len(s) /\ ~IsTerminator(s[k]) THEN LineEnd(s, k + 1) ELSE k - 1

\* whether index k starts a line (^ under /m)
AtLineStart(s, k) == k = 1 \/ IsTerminator(s[k - 1])

\* String.prototype.replace(/literal/g, rep) for a literal pattern
RECURSIVE ReplaceAll(_, _, _)
ReplaceAll(s, pat, rep) ==
    LET j == IndexOf(s, pat, 1)
    IN  IF j = 0 THEN s
        ELSE SubSeq(s, 1, j - 1) \o rep
             \o ReplaceAll(SubSeq(s, j + Len(pat), Len(s)), pat, rep)

\* (?=\n\S|\n$) just after index e: a line feed followed by a character that
\* is no white space, or a line feed that ends the input
BlockLookahead(s, e) ==
    /\ e + 1 <= Len(s)
    /\ s[e + 1] = NL
    /\ (e + 1 = Len(s) \/ ~IsWhite(s[e + 2]))

\* \s*\n(.*?)(?=\n\S|\n$) under /s from index a: \s* is greedy, so the line
\* feed is the last one of the white-space run that lets the rest match;
\* (.*?) is lazy, so the body ends at the first place the lookahead holds
BlockBody(s, a) ==
    LET w == WhiteEnd(s, a)
        qs == {q \in a..w : s[q] = NL /\ \E e \in q..Len(s) : BlockLookahead(s, e)}
    IN  IF qs = {} THEN [ok |-> FALSE, from |-> 0, to |-> 0]
        ELSE [ok |-> TRUE,
              from |-> MaxOf(qs) + 1,
              to |-> MinOf({e \in MaxOf(qs)..Len(s) : BlockLookahead(s, e)})]

ToctreeOpen == <<".", ".", " ", "t", "o", "c", "t", "r", "e", "e", ":", ":">>

\* processed.replace(/\.\. toctree::\s*\n(.*?)(?=\n\S|\n$)/gs, ...) from index k on
RECURSIVE ReplaceToctree(_, _)
ReplaceToctree(s, k) ==
    LET hits == {j \in k..Len(s) :
                    MatchAt(s, ToctreeOpen, j) /\ BlockBody(s, j + Len(ToctreeOpen)).ok}
    IN  IF hits = {} THEN SubSeq(s, k, Len(s))
        ELSE LET j == MinOf(hits)
                 b == BlockBody(s, j + Len(ToctreeOpen))
             IN  SubSeq(s, k, j - 1)
                 \o <<"<", "!", "-", "-", " ", "T", "O", "C", "T", "R", "E", "E", ":">>
                 \o BSN \o Trim(SubSeq(s, b.from, b.to)) \o BSN
                 \o <<"-", "-", ">">> \o BSN
                 \o ReplaceToctree(s, b.to + 1)


\* \s*(.+) from index a: the index where (.+) starts (0: no match); \s* is
\* greedy and gives characters back until a character '.' can match follows
AutoArgument(s, a) ==
    LET w == WhiteEnd(s, a)
        ps == {p \in a..(w + 1) : p <= Len(s) /\ ~IsTerminator(s[p])}
    IN  IF ps = {} THEN 0 ELSE MaxOf(ps)

\* processed.replace(/\.\. automodule::\s*(.+)/g, '<!-- AUTO-MODULE: $1 -->'),
\* and the same for autoclass
RECURSIVE ReplaceAuto(_, _, _, _)
ReplaceAuto(s, k, open, head) ==
    LET hits == {j \in k..Len(s) :
                    MatchAt(s, open, j) /\ AutoArgument(s, j + Len(open)) # 0}
    IN  IF hits = {} THEN SubSeq(s, k, Len(s))
        ELSE LET j == MinOf(hits)
                 p == AutoArgument(s, j + Len(open))
                 e == LineEnd(s, p)
             IN  SubSeq(s, k, j - 1) \o head \o SubSeq(s, p, e) \o <<" ", "-", "-", ">">>
                 \o ReplaceAuto(s, e + 1, open, head)

AdmonitionTypes ==
    << <<"n", "o", "t", "e">>, <<"w", "a", "r", "n", "i", "n", "g">>, <<"t", "i", "p">>,
       <<"i", "m", "p", "o", "r", "t", "a", "n", "t">> >>
AdmonitionUpper ==
    << <<"N", "O", "T", "E">>, <<"W", "A", "R", "N", "I", "N", "G">>, <<"T", "I", "P">>,
       <<"I", "M", "P", "O", "R", "T", "A", "N", "T">> >>
\* the emoji of each type, each one character of the model
AdmonitionEmoji == <<"(info)", "(warning)", "(tip)", "(important)">>

AdmonitionOpen(t) == <<".", ".", " ">> \o AdmonitionTypes[t] \o <<":", ":">>

\* the blockquote an admonition is rewritten to
AdmonitionQuote(t, body) ==
    <<">", " ", AdmonitionEmoji[t], " ", "*", "*">> \o AdmonitionUpper[t] \o <<"*", "*">>
    \o BSN \o <<">">> \o BSN \o <<">", " ">>
    \o ReplaceAll(Trim(body), BSN, BSN \o <<">", " ">>) \o BSN

\* whether /\.\. (note|warning|tip|important)::\s*\n(.*?)(?=\n\S|\n$)/s matches at j
\* with type t
AdmonitionAt(s, j, t) ==
    MatchAt(s, AdmonitionOpen(t), j) /\ BlockBody(s, j + Len(AdmonitionOpen(t))).ok

\* processed.replace(/\.\. (note|warning|tip|important)::.../gs, ...) from index k on
RECURSIVE ReplaceAdmonitions(_, _)
ReplaceAdmonitions(s, k) ==
    LET hits == {j \in k..Len(s) : \E t \in 1..4 : AdmonitionAt(s, j, t)}
    IN  IF hits = {} THEN SubSeq(s, k, Len(s))
        ELSE LET j == MinOf(hits)
                 t == MinOf({u \in 1..4 : AdmonitionAt(s, j, u)})
                 b == BlockBody(s, j + Len(AdmonitionOpen(t)))
             IN  SubSeq(s, k, j - 1)
                 \o AdmonitionQuote(t, SubSeq(s, b.from, b.to))
                 \o ReplaceAdmonitions(s, b.to + 1)

preprocessRST(text) ==
    ReplaceAdmonitions(
        ReplaceAuto(
            ReplaceAuto(
                ReplaceToctree(text, 1), 1,
                <<".", ".", " ", "a", "u", "t", "o", "m", "o", "d", "u", "l", "e", ":", ":">>,
                <<"<", "!", "-", "-", " ",
                  "A", "U", "T", "O", "-", "M", "O", "D", "U", "L", "E", ":", " ">>),
            1,
            <<".", ".", " ", "a", "u", "t", "o", "c", "l", "a", "s", "s", ":", ":">>,
            <<"<", "!", "-", "-", " ",
              "A", "U", "T", "O", "-", "C", "L", "A", "S", "S", ":", " ">>),
        1)

----------------------------------------------------------------------------
(* SphinxConverter.parseRST and parseDirective *)

LowerCase == {"a", "b", "c", "d", "e", "f", "g", "h", "i", "j", "k", "l", "m",
              "n", "o", "p", "q", "r", "s", "t", "u", "v", "w", "x", "y", "z"}
UpperCase == {"A", "B", "C", "D", "E", "F", "G", "H", "I", "J", "K", "L", "M",
              "N", "O", "P", "Q", "R", "S", "T", "U", "V", "W", "X", "Y", "Z"}
\* [a-zA-Z-]
NameChars == LowerCase \cup UpperCase \cup {"-"}

\* the characters of '=-~^"\'.+*#<>_' and the backtick
UnderlineChars == {"=", "-", "~", "^", "\"", "'", BT, ".", "+", "*", "#", "<", ">", "_"}

isUnderline(line) ==
    LET t == Trim(line)
    IN  /\ t # <<>>
        /\ \A k \in 1..Len(t) : t[k] = t[1]
        /\ t[1] \in UnderlineChars

\* levels[char] || 2
getHeaderLevel(char) ==
    CASE char = "=" -> 1
      [] char = "-" -> 2
      [] char = "~" -> 3
      [] char = "^" -> 4
      [] char = "\"" -> 5
      [] char = "'" -> 6
      [] OTHER -> 2

\* /^\\.\\. ([a-zA-Z-]+)::/ at the start of a line: a backslash, any
\* character, a backslash, any character, a space, a name, two colons.
\* The index of the last colon (0: no match).
DirectiveOpenEnd(line) ==
    LET e == RunEndIn(line, NameChars, 6)
    IN  IF /\ Len(line) >= 5
           /\ line[1] = BS /\ ~IsTerminator(line[2])
           /\ line[3] = BS /\ ~IsTerminator(line[4])
           /\ line[5] = " "
           /\ e >= 6
           /\ MatchAt(line, <<":", ":">>, e + 1)
        THEN e + 2 ELSE 0

\* line.match(/^\\.\\. [a-zA-Z-]+::/)
IsDirectiveOpen(line) == DirectiveOpenEnd(line) # 0

\* /^\\s*:([a-zA-Z-]+):/ at the start of a line: a backslash, letters s, a
\* colon, a name, a colon.  The index of the closing colon (0: no match).
OptionEnd(line) ==
    LET c == RunEnd(line, "s", 2) + 1
        e == RunEndIn(line, NameChars, c + 1)
    IN  IF /\ Len(line) >= 1 /\ line[1] = BS
           /\ c <= Len(line) /\ line[c] = ":"
           /\ e >= c + 1
           /\ e + 1 <= Len(line) /\ line[e + 1] = ":"
        THEN e + 1 ELSE 0

\* \\s*(.*) after index k: a backslash, letters s, then the rest of the line
\* ([ok, text])
BackslashRest(line, k) ==
    IF k + 1 <= Len(line) /\ line[k + 1] = BS
    THEN [ok |-> TRUE,
          text |-> SubSeq(line, RunEnd(line, "s", k + 2) + 1, LineEnd(line, k + 2))]
    ELSE [ok |-> FALSE, text |-> <<>>]

EmptyOptions == [k \in {} |-> <<>>]

\* the option loop of parseDirective from line k (0-based) on: [options, next];
\* directive.options[optionMatch[1]] = optionMatch[2] when the line matches
RECURSIVE OptionLoop(_, _, _)
OptionLoop(ls, k, os) ==
    IF k < Len(ls) /\ OptionEnd(ls[k + 1]) # 0
    THEN LET line == ls[k + 1]
             e == OptionEnd(line)
             c == RunEnd(line, "s", 2) + 1
             m == BackslashRest(line, e)
             key == SubSeq(line, c + 1, e - 1)
         IN  OptionLoop(ls, k + 1,
                        IF m.ok
                        THEN [o \in (DOMAIN os) \cup {key} |->
                                IF o = key THEN m.text ELSE os[o]]
                        ELSE os)
    ELSE [options |-> os, next |-> k]

\* the content loop of parseDirective from line k (0-based) on: [content, next]
RECURSIVE DirectiveContentLoop(_, _, _)
DirectiveContentLoop(ls, k, body) ==
    IF k < Len(ls) /\ (MatchAt(ls[k + 1], <<" ", " ", " ">>, 1) \/ Trim(ls[k + 1]) = <<>>)
    THEN DirectiveContentLoop(ls, k + 1,
            Append(body, IF Trim(ls[k + 1]) # <<>>
                         THEN SubSeq(ls[k + 1], 4, Len(ls[k + 1]))
                         ELSE <<>>))
    ELSE [content |-> body, next |-> k]

\* parseDirective without its "if (!match)" guard: the null match is
\* dereferenced
parseDirective_NoGuard(ls, startIndex) ==
    LET directiveLine == ls[startIndex + 1]
        e == DirectiveOpenEnd(directiveLine)
        m == BackslashRest(directiveLine, e)
        o == OptionLoop(ls, startIndex + 1, EmptyOptions)
        k == IF o.next < Len(ls) /\ Trim(ls[o.next + 1]) = <<>>
             THEN o.next + 1 ELSE o.next
        c == DirectiveContentLoop(ls, k, <<>>)
    IN  [directive |-> [name |-> SubSeq(directiveLine, 6, e - 2),
                        arguments |-> IF m.text # <<>> THEN <<m.text>> ELSE <<>>,
                        options |-> o.options,
                        content |-> c.content],
         nextIndex |-> c.next,
         threw |-> (e = 0 \/ ~m.ok)]

\* parseDirective(lines, startIndex), startIndex 0-based; threw tells that
\* the call ended in a TypeError instead of returning
parseDirective(ls, startIndex) ==
    LET directiveLine == ls[startIndex + 1]
        e == DirectiveOpenEnd(directiveLine)
        m == BackslashRest(directiveLine, e)
    IN  IF e = 0 \/ ~m.ok
        THEN [directive |-> [name |-> <<>>, arguments |-> <<>>,
                             options |-> EmptyOptions, content |-> <<>>],
              nextIndex |-> startIndex + 1,
              threw |-> FALSE]
        ELSE LET o == OptionLoop(ls, startIndex + 1, EmptyOptions)
                 k == IF o.next < Len(ls) /\ Trim(ls[o.next + 1]) = <<>>
                      THEN o.next + 1 ELSE o.next
                 c == DirectiveContentLoop(ls, k, <<>>)
             IN  [directive |-> [name |-> SubSeq(directiveLine, 6, e - 2),
                                 arguments |-> IF m.text # <<>> THEN <<m.text>> ELSE <<>>,
                                 options |-> o.options,
                                 content |-> c.content],
                  nextIndex |-> c.next,
                  \* match[1] and match[2] of a null match are a TypeError
                  threw |-> (e = 0 \/ ~m.ok)]

\* the three branches of the scan loop of parseRST, on the line at index k
\* (0-based)
IsHeaderAt(ls, k) ==
    /\ k + 1 < Len(ls)
    /\ isUnderline(ls[k + 2])
    /\ Trim(ls[k + 1]) # <<>>

IsDirectiveAt(ls, k) == ~IsHeaderAt(ls, k) /\ IsDirectiveOpen(ls[k + 1])

IsContentAt(ls, k) == ~IsHeaderAt(ls, k) /\ ~IsDirectiveOpen(ls[k + 1])


\* the header branch when every level-1 header takes the title
HeaderStep_Retitle(ls, st) ==
    LET line == ls[st.idx + 1]
        level == getHeaderLevel(ls[st.idx + 2][1])
    IN  IF level = 1
        THEN [st EXCEPT !.result.title = Trim(line), !.idx = @ + 2]
        ELSE [st EXCEPT
                !.result.sections =
                    Append(@, [title |-> Trim(line), level |-> level,
                               content |-> <<>>, lineStart |-> st.idx]),
                !.currentSection = Len(st.result.sections) + 1,
                !.idx = @ + 2]

\* a parse state: [result, currentSection, idx]
HeaderStep(ls, st) ==
    LET line == ls[st.idx + 1]
        level == getHeaderLevel(ls[st.idx + 2][1])
    IN  IF st.result.title = <<>> /\ level = 1
        THEN [st EXCEPT !.result.title = Trim(line), !.idx = @ + 2]
        ELSE [st EXCEPT
                !.result.sections =
                    Append(@, [title |-> Trim(line), level |-> level,
                               content |-> <<>>, lineStart |-> st.idx]),
                !.currentSection = Len(st.result.sections) + 1,
                !.idx = @ + 2]

\* DirectiveStep that leaves the cursor on the directive line
DirectiveStep_Stay(ls, st) ==
    LET d == parseDirective(ls, st.idx)
    IN  [st EXCEPT !.result.directives = Append(@, d.directive),
                   !.idx = d.nextIndex - 1]

DirectiveStep(ls, st) ==
    LET d == parseDirective(ls, st.idx)
    IN  [st EXCEPT !.result.directives = Append(@, d.directive),
                   !.idx = d.nextIndex]

ContentStep(ls, st) ==
    LET line == ls[st.idx + 1]
    IN  IF st.currentSection # 0
        THEN [st EXCEPT !.result.sections[st.currentSection].content = @ \o line \o BSN,
                        !.idx = @ + 1]
        ELSE [st EXCEPT !.idx = @ + 1]

EmptyResult == [title |-> <<>>, sections |-> <<>>, directives |-> <<>>]

----------------------------------------------------------------------------
(* SphinxConverter.convertContentToMarkdown, convertParsedToMarkdown, postProcess *)

\* String.prototype.repeat
RECURSIVE Repeat(_, _)
Repeat(c, n) == IF n <= 0 THEN <<>> ELSE <<c>> \o Repeat(c, n - 1)

\* the end of the run of characters not in set S that starts at index k
RECURSIVE RunEndNotIn(_, _, _)
RunEndNotIn(s, S, k) ==
    IF k <= Len(s) /\ s[k] \notin S THEN RunEndNotIn(s, S, k + 1) ELSE k - 1

\* what ([^*]+) captures of a run of characters other than '*' once the
\* leading \\* (any number of backslashes) is matched: the run without its
\* leading backslashes, or its last backslash when it holds nothing else
StripBackslashes(run) ==
    LET k == RunEnd(run, BS, 1)
    IN  IF k < Len(run) THEN SubSeq(run, k + 1, Len(run))
        ELSE SubSeq(run, Len(run), Len(run))

\* markdown.replace(/\\*\\*([^*]+)\\*\\*/g, '**$1**') with mark '**' and
\* markdown.replace(/\\*([^*]+)\\*/g, '*$1*') with mark '*': \\* is "any
\* number of backslashes", so every run of characters other than '*' matches
RECURSIVE WrapRuns(_, _, _)
WrapRuns(s, k, mark) ==
    IF k > Len(s) THEN <<>>
    ELSE IF s[k] = "*" THEN <<"*">> \o WrapRuns(s, k + 1, mark)
    ELSE LET e == RunEndNotIn(s, {"*"}, k)
         IN  mark \o StripBackslashes(SubSeq(s, k, e)) \o mark
             \o WrapRuns(s, e + 1, mark)

\* whether open, a non-empty run of characters other than the backtick, and
\* close stand at index j
QuotedAt(s, j, open, close) ==
    LET e == RunEndNotIn(s, {BT}, j + Len(open))
    IN  /\ MatchAt(s, open, j)
        /\ e >= j + Len(open)
        /\ MatchAt(s, close, e + 1)

\* markdown.replace(/``([^`]+)``/g, '`$1`')
RECURSIVE InlineCode(_, _)
InlineCode(s, k) ==
    LET hits == {j \in k..Len(s) : QuotedAt(s, j, <<BT, BT>>, <<BT, BT>>)}
    IN  IF hits = {} THEN SubSeq(s, k, Len(s))
        ELSE LET j == MinOf(hits)
                 e == RunEndNotIn(s, {BT}, j + 2)
             IN  SubSeq(s, k, j - 1) \o <<BT>> \o SubSeq(s, j + 2, e) \o <<BT>>
                 \o InlineCode(s, e + 3)

\* markdown.replace(/::$\\n\\n((?:\\s{4,}.*\\n?)*)/gm, ...): after '::' the
\* pattern asks for the end of a line ($) and then for a backslash, which
\* never stands at the end of a line, so nothing is ever replaced
CodeBlocks(s) == s

\* (.+)$ after a run of letters s that ends at index e3 and has c letters:
\* the rest of the line, or the last s of the run when nothing follows
TailGroup(line, e3, c) ==
    IF e3 < Len(line) THEN [ok |-> TRUE, text |-> SubSeq(line, e3 + 1, Len(line))]
    ELSE IF c >= 2 THEN [ok |-> TRUE, text |-> <<"s">>]
    ELSE [ok |-> FALSE, text |-> <<>>]

\* /^\\s*\\*\\s+(.+)$/ on one line: a backslash, letters s, backslashes, a
\* backslash, one or more letters s, the rest; replaced by '- $1'
BulletLine(line) ==
    LET e1 == RunEnd(line, "s", 2)
        e2 == RunEnd(line, BS, e1 + 1)
        e3 == RunEnd(line, "s", e2 + 1)
        g == TailGroup(line, e3, e3 - e2)
    IN  IF Len(line) >= 1 /\ line[1] = BS /\ e2 - e1 >= 1 /\ e3 - e2 >= 1 /\ g.ok
        THEN <<"-", " ">> \o g.text
        ELSE line

\* /^\\s*(\\d+)\\.\\s+(.+)$/ on one line: a backslash, letters s, a backslash
\* and letters d (group 1), a backslash, any character, a backslash, one or
\* more letters s, the rest (group 2); replaced by '$1. $2'
NumberedLine(line) ==
    LET e1 == RunEnd(line, "s", 2)
        e2 == RunEnd(line, "d", e1 + 2)
        e3 == RunEnd(line, "s", e2 + 4)
        g == TailGroup(line, e3, e3 - (e2 + 3))
    IN  IF /\ Len(line) >= 1 /\ line[1] = BS
           /\ e1 + 1 <= Len(line) /\ line[e1 + 1] = BS
           /\ e2 - (e1 + 1) >= 1
           /\ e2 + 3 <= Len(line) /\ line[e2 + 1] = BS /\ line[e2 + 3] = BS
           /\ e3 - (e2 + 3) >= 1
           /\ g.ok
        THEN SubSeq(line, e1 + 1, e2) \o <<".", " ">> \o g.text
        ELSE line

\* /^(#{1,6}\\s+.+)$/ on one line, replaced by '\\n$1\\n'
HeaderSpacingLine(line) ==
    IF HeaderMatch(line).ok THEN BSN \o line \o BSN ELSE line

\* /[ \\t]+$/ on one line: the class holds the space, the backslash and the
\* letter t; the trailing run of them is removed
TrailingLine(line) ==
    LET keep == {k \in 1..Len(line) : line[k] \notin {" ", BS, "t"}}
    IN  IF keep = {} THEN <<>> ELSE SubSeq(line, 1, MaxOf(keep))

LineRewrite(kind, line) ==
    CASE kind = "bullet" -> BulletLine(line)
      [] kind = "numbered" -> NumberedLine(line)
      [] kind = "headerSpacing" -> HeaderSpacingLine(line)
      [] kind = "trailing" -> TrailingLine(line)

\* a replace under /gm whose pattern spans one whole line (^...$): every
\* line from index k on is rewritten, the line terminators are kept
RECURSIVE MapLines(_, _, _)
MapLines(kind, s, k) ==
    LET e == LineEnd(s, k)
    IN  IF e >= Len(s) THEN LineRewrite(kind, SubSeq(s, k, e))
        ELSE LineRewrite(kind, SubSeq(s, k, e)) \o <<s[e + 1]>> \o MapLines(kind, s, e + 2)


\* String.prototype.toLowerCase
ToLowerCase(s) ==
    LET LowerOf == [c \in UpperCase |->
            CASE c = "A" -> "a" [] c = "B" -> "b" [] c = "C" -> "c" [] c = "D" -> "d"
              [] c = "E" -> "e" [] c = "F" -> "f" [] c = "G" -> "g" [] c = "H" -> "h"
              [] c = "I" -> "i" [] c = "J" -> "j" [] c = "K" -> "k" [] c = "L" -> "l"
              [] c = "M" -> "m" [] c = "N" -> "n" [] c = "O" -> "o" [] c = "P" -> "p"
              [] c = "Q" -> "q" [] c = "R" -> "r" [] c = "S" -> "s" [] c = "T" -> "t"
              [] c = "U" -> "u" [] c = "V" -> "v" [] c = "W" -> "w" [] c = "X" -> "x"
              [] c = "Y" -> "y" [] c = "Z" -> "z"]
    IN  [k \in 1..Len(s) |-> IF s[k] \in UpperCase THEN LowerOf[s[k]] ELSE s[k]]

\* the replacement of a :doc: reference
DocLink(ref, opt) ==
    IF "preserveReferences" \in DOMAIN opt /\ opt.preserveReferences
    THEN <<"[">> \o ref \o <<"]", "(">> \o ref \o <<".", "m", "d", ")">>
    ELSE ref

\* the replacement of a :ref: reference; .replace(/\\s+/g, '-') puts '-' for
\* every backslash followed by letters s
RefLink(ref, opt) ==
    IF "preserveReferences" \in DOMAIN opt /\ opt.preserveReferences
    THEN <<"[">> \o ref \o <<"]", "(", "#">>
         \o Join(SplitWords(ToLowerCase(ref)), <<"-">>) \o <<")">>
    ELSE ref

\* markdown.replace(/:doc:`([^`]+)`/g, ...) (kind "doc") and
\* markdown.replace(/:ref:`([^`]+)`/g, ...) (kind "ref")
RECURSIVE References(_, _, _, _)
References(s, k, kind, opt) ==
    LET open == IF kind = "doc" THEN <<":", "d", "o", "c", ":", BT>>
                ELSE <<":", "r", "e", "f", ":", BT>>
        hits == {j \in k..Len(s) : QuotedAt(s, j, open, <<BT>>)}
    IN  IF hits = {} THEN SubSeq(s, k, Len(s))
        ELSE LET j == MinOf(hits)
                 e == RunEndNotIn(s, {BT}, j + Len(open))
                 ref == SubSeq(s, j + Len(open), e)
             IN  SubSeq(s, k, j - 1)
                 \o (IF kind = "doc" THEN DocLink(ref, opt) ELSE RefLink(ref, opt))
                 \o References(s, e + 2, kind, opt)

\* /`([^<]+)<([^>]+)>`_/ at index j: the index of the '<' and of the '>'
ExternalLinkAt(s, j) ==
    LET e1 == RunEndNotIn(s, {"<"}, j + 1)
        e2 == RunEndNotIn(s, {">"}, e1 + 2)
    IN  IF /\ j <= Len(s) /\ s[j] = BT
           /\ e1 >= j + 1
           /\ e1 + 1 <= Len(s)
           /\ e2 >= e1 + 2
           /\ MatchAt(s, <<">", BT, "_">>, e2 + 1)
        THEN [ok |-> TRUE, lt |-> e1 + 1, gt |-> e2 + 1]
        ELSE [ok |-> FALSE, lt |-> 0, gt |-> 0]

\* markdown.replace(/`([^<]+)<([^>]+)>`_/g, '[$1]($2)')
RECURSIVE ExternalLinks(_, _)
ExternalLinks(s, k) ==
    LET hits == {j \in k..Len(s) : ExternalLinkAt(s, j).ok}
    IN  IF hits = {} THEN SubSeq(s, k, Len(s))
        ELSE LET j == MinOf(hits)
                 m == ExternalLinkAt(s, j)
             IN  SubSeq(s, k, j - 1)
                 \o <<"[">> \o SubSeq(s, j + 1, m.lt - 1) \o <<"]", "(">>
                 \o SubSeq(s, m.lt + 1, m.gt - 1) \o <<")">>
                 \o ExternalLinks(s, m.gt + 3)

convertContentToMarkdown(text, opt) ==
    LET strong == WrapRuns(text, 1, <<"*", "*">>)
        emphasis == WrapRuns(strong, 1, <<"*">>)
        code == CodeBlocks(InlineCode(emphasis, 1))
        bullets == MapLines("bullet", code, 1)
        numbered == MapLines("numbered", bullets, 1)
        docs == References(numbered, 1, "doc", opt)
        links == ExternalLinks(docs, 1)
        refs == References(links, 1, "ref", opt)
    IN  Trim(refs)

\* the for-loop of convertParsedToMarkdown over parsed.sections[k..]
RECURSIVE RenderSections(_, _, _)
RenderSections(parsed, k, opt) ==
    IF k > Len(parsed.sections) THEN <<>>
    ELSE LET section == parsed.sections[k]
         IN  Repeat("#", section.level + (IF parsed.title # <<>> THEN 1 ELSE 0))
             \o <<" ">> \o section.title \o BSNBSN
             \o convertContentToMarkdown(section.content, opt) \o BSNBSN
             \o RenderSections(parsed, k + 1, opt)

convertParsedToMarkdown(parsed, opt) ==
    (IF parsed.title # <<>> THEN <<"#", " ">> \o parsed.title \o BSNBSN ELSE <<>>)
    \o RenderSections(parsed, 1, opt)

\* processed.replace(/\\n{3,}/g, '\\n\\n'): a backslash followed by three or
\* more letters n becomes '\\n\\n'
RECURSIVE CollapseNewlines(_, _)
CollapseNewlines(s, k) ==
    LET hits == {j \in k..Len(s) : s[j] = BS /\ RunEnd(s, "n", j + 1) - j >= 3}
    IN  IF hits = {} THEN SubSeq(s, k, Len(s))
        ELSE LET j == MinOf(hits)
             IN  SubSeq(s, k, j - 1) \o BSNBSN
                 \o CollapseNewlines(s, RunEnd(s, "n", j + 1) + 1)

\* mutant of postProcess: the result carries the number of earlier calls of
\* the converter instance
postProcess_CallCount(text, opt) ==
    Trim(MapLines("trailing",
                  MapLines("headerSpacing", CollapseNewlines(text, 1), 1), 1))
    \o Digits(Len(calls))

postProcess(text, opt) ==
    Trim(MapLines("trailing",
                  MapLines("headerSpacing", CollapseNewlines(text, 1), 1), 1))

----------------------------------------------------------------------------
(* SphinxConverter.convertToMarkdown *)

ParseState == [result |-> result, currentSection |-> currentSection, idx |-> idx]

\* const preprocessed = this.preprocessRST(content)
Preprocess ==
    /\ vpc = "called"
    /\ preprocessed' = preprocessRST(content)
    /\ vpc' = "preprocessed"
    /\ UNCHANGED <<docReferences, crossReferences, content, options, rstLines,
                   result, currentSection, idx, rendered, postProcessed, calls>>
    /\ UNCHANGED <<chunkVars, optVars, toolVars>>

\* parseRST up to its loop
StartParse ==
    /\ vpc = "preprocessed"
    /\ rstLines' = Split(preprocessed, BSN)
    /\ result' = EmptyResult
    /\ currentSection' = 0
    /\ idx' = 0
    /\ vpc' = "parsing"
    /\ UNCHANGED <<docReferences, crossReferences, content, options, preprocessed,
                   rendered, postProcessed, calls>>
    /\ UNCHANGED <<chunkVars, optVars, toolVars>>

\* what one iteration of the loop leaves unchanged
ParseFrame ==
    /\ UNCHANGED <<docReferences, crossReferences, content, options,
                   preprocessed, rstLines, rendered, postProcessed, calls>>
    /\ UNCHANGED <<chunkVars, optVars, toolVars>>

\* loop body: a header and its underline
ParseHeader ==
    /\ vpc = "parsing"
    /\ idx < Len(rstLines)
    /\ IsHeaderAt(rstLines, idx)
    /\ LET st == HeaderStep(rstLines, ParseState)
       IN  /\ result' = st.result
           /\ currentSection' = st.currentSection
           /\ idx' = st.idx
    /\ vpc' = vpc
    /\ ParseFrame

\* loop body: a directive; an error thrown by parseDirective leaves the
\* loop and is rethrown by the catch of convertToMarkdown
ParseDirective ==
    /\ vpc = "parsing"
    /\ idx < Len(rstLines)
    /\ IsDirectiveAt(rstLines, idx)
    /\ IF parseDirective(rstLines, idx).threw
       THEN /\ vpc' = "failed"
            /\ UNCHANGED <<result, currentSection, idx>>
       ELSE /\ LET st == DirectiveStep(rstLines, ParseState)
               IN  /\ result' = st.result
                   /\ currentSection' = st.currentSection
                   /\ idx' = st.idx
            /\ vpc' = vpc
    /\ ParseFrame

\* loop body: a line of content
ParseContent ==
    /\ vpc = "parsing"
    /\ idx < Len(rstLines)
    /\ IsContentAt(rstLines, idx)
    /\ LET st == ContentStep(rstLines, ParseState)
       IN  /\ result' = st.result
           /\ currentSection' = st.currentSection
           /\ idx' = st.idx
    /\ vpc' = vpc
    /\ ParseFrame

\* const markdown = this.convertParsedToMarkdown(parsed, options)
Render ==
    /\ vpc = "parsing"
    /\ idx >= Len(rstLines)
    /\ rendered' = convertParsedToMarkdown(result, options)
    /\ vpc' = "rendered"
    /\ UNCHANGED <<docReferences, crossReferences, content, options, preprocessed,
                   rstLines, result, currentSection, idx, postProcessed, calls>>
    /\ UNCHANGED <<chunkVars, optVars, toolVars>>

\* const postProcessed = this.postProcess(markdown, options); return it
PostProcess ==
    /\ vpc = "rendered"
    /\ postProcessed' = postProcess(rendered, options)
    /\ calls' = Append(calls, [content |-> content, options |-> options,
                               output |-> postProcessed'])
    /\ vpc' = "returned"
    /\ UNCHANGED <<docReferences, crossReferences, content, options, preprocessed,
                   rstLines, result, currentSection, idx, rendered>>
    /\ UNCHANGED <<chunkVars, optVars, toolVars>>

MaxConvFragments == 3

\* fragments of reStructuredText, each a sequence of lines: a title with '='
\* underline, a section with '-' underline, a header whose '=' underline is
\* indented, a blank line, body text, a :doc: reference with a label, a note
\* admonition, a directive parseDirective's pattern accepts with a line
\* indented under it, a directive-open line that pattern rejects with a
\* line indented under it, a header underlined with the character of
\* level 6, and a note admonition with its text on the directive line
ConvFragment ==
    [title |-> <<<<"T">>, <<"=", "=">>>>,
     section |-> <<<<"S">>, <<"-", "-">>>>,
     indented |-> <<<<"V">>, <<" ", "=", "=">>>>,
     blank |-> << <<>> >>,
     body |-> <<<<"b">>>>,
     docRef |-> <<<<":", "d", "o", "c", ":", BT, "T", "<", "l", ">", BT>>>>,
     note |-> <<<<".", ".", " ", "n", "o", "t", "e", ":", ":">>, <<" ", " ", " ", "r">>, <<>> >>,
     directive |-> <<<<BS, ".", BS, ".", " ", "c", ":", ":", BS, "x">>,
                     <<" ", " ", " ", "d">>>>,
     malformed |-> <<<<BS, ".", BS, ".", " ", "c", ":", ":">>,
                     <<" ", " ", " ", "e">>>>,
     deep |-> <<<<"W">>, <<"'", "'">>>>,
     inlineNote |-> <<<<".", ".", " ", "n", "o", "t", "e", ":", ":", " ", "r">>>>]

\* the line separators a caller's text may hold: the line feed, and the
\* two characters backslash and n that the parser splits on
ConvNewlines == {<<NL>>, BSN}

ConvDocs ==
    LET RECURSIVE ConvLinesOfLen(_)
        ConvLinesOfLen(n) ==
            IF n <= 0 THEN {<<>>}
            ELSE {ls \o ConvFragment[k] : ls \in ConvLinesOfLen(n - 1),
                                           k \in DOMAIN ConvFragment}
    IN  {Join(ls, nl) : ls \in UNION {ConvLinesOfLen(n) : n \in 0..MaxConvFragments},
                        nl \in ConvNewlines}

\* the converter as constructed, with one call of convertToMarkdown begun
ConvCalled ==
    /\ docReferences = {}
    /\ crossReferences = {}
    /\ vpc = "called"
    /\ options \in [preserveReferences : BOOLEAN]
    /\ preprocessed = <<>>
    /\ rstLines = <<>>
    /\ result = EmptyResult
    /\ currentSection = 0
    /\ idx = 0
    /\ rendered = <<>>
    /\ postProcessed = <<>>
    /\ calls = <<>>

InitConvert ==
    /\ content \in ConvDocs
    /\ ConvCalled
    /\ ChunkIdle
    /\ OptIdle
    /\ ToolIdle

NextConvert ==
    \/ Preprocess
    \/ StartParse
    \/ ParseHeader
    \/ ParseDirective
    \/ ParseContent
    \/ Render
    \/ PostProcess

SpecConvert == InitConvert /\ [][NextConvert]_vars

MaxCalls == 3

\* the texts of repeated calls: a title with a section and body, a section
\* with a :doc: reference, a note admonition, a directive, the empty text
CallDocs ==
    { Join(ConvFragment.title \o ConvFragment.section \o ConvFragment.body, BSN),
      Join(ConvFragment.section \o ConvFragment.docRef, BSN),
      Join(ConvFragment.note, <<NL>>),
      Join(ConvFragment.directive \o ConvFragment.body, BSN),
      <<>> }

\* the same converter instance is called again
NextCall ==
    /\ vpc = "returned"
    /\ Len(calls) < MaxCalls
    /\ content' \in CallDocs
    /\ options' \in [preserveReferences : BOOLEAN]
    /\ vpc' = "called"
    /\ preprocessed' = <<>>
    /\ rstLines' = <<>>
    /\ result' = EmptyResult
    /\ currentSection' = 0
    /\ idx' = 0
    /\ rendered' = <<>>
    /\ postProcessed' = <<>>
    /\ UNCHANGED <<docReferences, crossReferences, calls>>
    /\ UNCHANGED <<chunkVars, optVars, toolVars>>

InitCalls ==
    /\ content \in CallDocs
    /\ ConvCalled
    /\ ChunkIdle
    /\ OptIdle
    /\ ToolIdle

NextCalls ==
    \/ Preprocess
    \/ StartParse
    \/ ParseHeader
    \/ ParseDirective
    \/ ParseContent
    \/ Render
    \/ PostProcess
    \/ NextCall

SpecCalls == InitCalls /\ [][NextCalls]_vars

----------------------------------------------------------------------------
(* Properties of convertToMarkdown *)

\* the lines of a text, broken at line feeds and at the two characters
\* backslash n
RECURSIVE SplitEach(_, _)
SplitEach(parts, sep) ==
    IF parts = <<>> THEN <<>>
    ELSE Split(Head(parts), sep) \o SplitEach(Tail(parts), sep)

OutputLines(text) == SplitEach(Split(text, <<NL>>), BSN)

\* a title, a blank line and body text, in either line separator
TitleBodyDocs ==
    {Join(ConvFragment.title \o ConvFragment.blank \o ConvFragment.body, nl) :
        nl \in ConvNewlines}

TitleHeading == <<"#", " ", "T">>

\* C1: for a level-1 title followed by a blank line and body text, the
\* returned Markdown holds exactly one '# T' heading and the body text after it.
C1_TitleThenBody ==
    (vpc = "returned" /\ content \in TitleBodyDocs) =>
        LET h == IndexOf(postProcessed, TitleHeading, 1)
        IN  /\ h # 0
            /\ IndexOf(postProcessed, TitleHeading, h + 1) = 0
            /\ IndexOf(postProcessed, ConvFragment.body[1], h + Len(TitleHeading)) # 0

\* the level the underline character c stands for
UnderlineLevel(c) ==
    CASE c = "=" -> 1 [] c = "-" -> 2 [] c = "~" -> 3

\* C2: a header underlined with '=' has level 1, with '-' level 2, with '~'
\* level 3, however the underline line is indented.
C2_LevelByUnderline ==
    \A k \in 1..Len(result.sections) :
        LET underline == Trim(rstLines[result.sections[k].lineStart + 2])
        IN  underline[1] \in {"=", "-", "~"} =>
                result.sections[k].level = UnderlineLevel(underline[1])

DocRefLabelLink == <<"[", "l", "]", "(", "l", ".", "m", "d", ")">>
DocRefLabel == <<"l">>
DocRefTarget == <<"T", "<">>

\* C3: a :doc: reference with a label in section content is rendered as the
\* link [l](l.md) when preserveReferences is true and as the bare label l
\* when it is false.
C3_DocReference ==
    (/\ vpc = "returned"
     /\ \E k \in 1..Len(result.sections) :
            Includes(result.sections[k].content, ConvFragment.docRef[1])) =>
        IF options.preserveReferences
        THEN Includes(postProcessed, DocRefLabelLink)
        ELSE /\ Includes(postProcessed, DocRefLabel)
             /\ ~Includes(postProcessed, DocRefTarget)

\* a note directive followed by its indented body line
NoteText == Join(SubSeq(ConvFragment.note, 1, 2), <<NL>>)
NoteBody == <<"r">>

\* C4: for an input holding a note admonition, some line of the output
\* starts with '>' and carries the info marker, and the output holds the
\* admonition's body text.
C4_NoteBlockquote ==
    (vpc = "returned" /\ Includes(content, NoteText)) =>
        /\ \E k \in 1..Len(OutputLines(postProcessed)) :
              LET line == OutputLines(postProcessed)[k]
              IN  /\ line # <<>>
                  /\ line[1] = ">"
                  /\ Includes(line, <<AdmonitionEmoji[1]>>)
        /\ Includes(postProcessed, NoteBody)

\* C10: two calls of convertToMarkdown on one converter instance with the
\* same text and the same options return the same output, whatever calls
\* came before or in between.
C10_Deterministic ==
    \A i \in 1..Len(calls) : \A j \in 1..Len(calls) :
        (calls[i].content = calls[j].content /\ calls[i].options = calls[j].options)
            => calls[i].output = calls[j].output

\* C10 witness: the same text with the same options was converted twice,
\* with a conversion of another text in between, to a non-empty output.
C10_Witness ==
    /\ Len(calls) >= 3
    /\ calls[1].content = calls[3].content
    /\ calls[1].options = calls[3].options
    /\ calls[2].content # calls[1].content
    /\ calls[1].output # <<>>
    /\ calls[2].output # <<>>

----------------------------------------------------------------------------
(* LLMOptimizer.optimize *)

Bullet == "(bullet)"

\* /^#{5,}\\s+/ on one line: five or more '#', a backslash, one or more
\* letters s; replaced by '#### '
ClampLine(line) ==
    LET h == RunEnd(line, "#", 1)
        e == RunEnd(line, "s", h + 2)
    IN  IF h >= 5 /\ h + 1 <= Len(line) /\ line[h + 1] = BS /\ e >= h + 2
        THEN <<"#", "#", "#", "#", " ">> \o SubSeq(line, e + 1, Len(line))
        ELSE line

\* /^#{1,6}\\s+.*\\n\\n(?=#{1,6})/ on one line: a heading as far as the last
\* '\\n\\n' that a '#' follows; replaced by ''
EmptySectionLine(line) ==
    LET h == RunEnd(line, "#", 1)
        cuts == {c \in (h + 3)..(Len(line) - 4) :
                    MatchAt(line, BSNBSN, c) /\ line[c + 4] = "#"}
    IN  IF /\ h >= 1 /\ h <= 6
           /\ h + 2 <= Len(line) /\ line[h + 1] = BS /\ line[h + 2] = "s"
           /\ cuts # {}
        THEN SubSeq(line, MaxOf(cuts) + 4, Len(line))
        ELSE line

\* /^-\\s+/ on one line: '-', a backslash, one or more letters s; replaced
\* by the bullet and a space
DashLine(line) ==
    LET e == RunEnd(line, "s", 3)
    IN  IF Len(line) >= 3 /\ line[1] = "-" /\ line[2] = BS /\ e >= 3
        THEN <<Bullet, " ">> \o SubSeq(line, e + 1, Len(line))
        ELSE line

\* /^(#{1,2}\\s+.+)$/ on one line, replaced by '\\n---\\n\\n$1'
SeparatorLine(line) ==
    IF HeaderMatch(line).ok /\ HeaderMatch(line).level <= 2
    THEN BSN \o <<"-", "-", "-">> \o BSNBSN \o line
    ELSE line

OptLineRewrite(kind, line) ==
    CASE kind = "clamp" -> ClampLine(line)
      [] kind = "emptySection" -> EmptySectionLine(line)
      [] kind = "dash" -> DashLine(line)
      [] kind = "separator" -> SeparatorLine(line)

\* a replace under /gm whose pattern starts at ^ and stays within one line:
\* every line from index k on is rewritten, the line terminators are kept
RECURSIVE OptMapLines(_, _, _)
OptMapLines(kind, s, k) ==
    LET e == LineEnd(s, k)
    IN  IF e >= Len(s) THEN OptLineRewrite(kind, SubSeq(s, k, e))
        ELSE OptLineRewrite(kind, SubSeq(s, k, e)) \o <<s[e + 1]>>
             \o OptMapLines(kind, s, e + 2)

\* /^\s*[a-zA-Z]\)\s+/m (kind "letter") and /^\s*[ivx]+\)\s+/m (kind "roman")
\* at index j: the index of the last character matched, 0 for no match
MarkerEnd(s, j, kind) ==
    LET w == WhiteEnd(s, j)
        m == IF kind = "letter"
             THEN (IF w + 1 <= Len(s) /\ s[w + 1] \in LowerCase \cup UpperCase
                   THEN w + 1 ELSE w)
             ELSE RunEndIn(s, {"i", "v", "x"}, w + 1)
        e == WhiteEnd(s, m + 2)
    IN  IF /\ AtLineStart(s, j)
           /\ m >= w + 1
           /\ m + 1 <= Len(s) /\ s[m + 1] = ")"
           /\ e >= m + 2
        THEN e ELSE 0

\* simplified.replace(/^\s*[a-zA-Z]\)\s+/gm, '- ') and
\* simplified.replace(/^\s*[ivx]+\)\s+/gm, '- ')
RECURSIVE ListMarkers(_, _, _)
ListMarkers(s, k, kind) ==
    LET hits == {j \in k..Len(s) : MarkerEnd(s, j, kind) # 0}
    IN  IF hits = {} THEN SubSeq(s, k, Len(s))
        ELSE LET j == MinOf(hits)
             IN  SubSeq(s, k, j - 1) \o <<"-", " ">>
                 \o ListMarkers(s, MarkerEnd(s, j, kind) + 1, kind)

\* row.split('|').map(c => c.trim()).filter(c => c)
RECURSIVE TrimmedNonEmpty(_)
TrimmedNonEmpty(parts) ==
    IF parts = <<>> THEN <<>>
    ELSE IF Trim(Head(parts)) = <<>> THEN TrimmedNonEmpty(Tail(parts))
    ELSE <<Trim(Head(parts))>> \o TrimmedNonEmpty(Tail(parts))

Cells(row) == TrimmedNonEmpty(Split(row, <<"|">>))

\* the for-loop of the simplifyTables callback over dataRows[k..]
RECURSIVE TableRows(_, _, _)
TableRows(rows, k, headers) ==
    IF k > Len(rows) THEN <<>>
    ELSE (IF Len(Cells(rows[k])) = Len(headers)
          THEN <<Bullet, " ">> \o Join(Cells(rows[k]), <<" ", Bullet, " ">>) \o BSN
          ELSE <<>>)
         \o TableRows(rows, k + 1, headers)

\* the callback of simplifyTables
TableCallback(match) ==
    LET rows == Split(Trim(match), BSN)
        headers == Cells(rows[1])
    IN  IF Len(rows) < 3 THEN match
        ELSE <<"*", "*">> \o Join(headers, <<" ", "|", " ">>) \o <<"*", "*">> \o BSNBSN
             \o TableRows(rows, 3, headers)

\* markdown.replace(/\\|.*\\|\\n\\|.*\\|\\n(?:\\|.*\\|\\n)*/g, callback): the
\* pattern is an alternation whose first branch is one backslash and whose
\* second is anything up to a backslash, so a match is one backslash, or the
\* text from the current position to the last backslash of the line
RECURSIVE simplifyTablesFrom(_, _)
simplifyTablesFrom(s, k) ==
    IF k > Len(s) THEN <<>>
    ELSE IF s[k] = BS \/ IsTerminator(s[k])
    THEN <<s[k]>> \o simplifyTablesFrom(s, k + 1)
    ELSE LET e == LineEnd(s, k)
             slashes == {j \in k..e : s[j] = BS}
         IN  IF slashes = {} THEN SubSeq(s, k, e) \o simplifyTablesFrom(s, e + 1)
             ELSE TableCallback(SubSeq(s, k, MaxOf(slashes)))
                  \o simplifyTablesFrom(s, MaxOf(slashes) + 1)

simplifyTables(text) == simplifyTablesFrom(text, 1)

simplifyStructure(text) ==
    simplifyTables(
        ListMarkers(ListMarkers(OptMapLines("clamp", text, 1), 1, "letter"), 1, "roman"))

\* /\[([^\]]+)\]\(\1\)/ at index j: the index of the closing ')' or 0
SameLinkEnd(s, j) ==
    LET e == RunEndNotIn(s, {"]"}, j + 1)
        text == SubSeq(s, j + 1, e)
    IN  IF /\ j <= Len(s) /\ s[j] = "["
           /\ e >= j + 1
           /\ MatchAt(s, <<"]", "(">>, e + 1)
           /\ MatchAt(s, text \o <<")">>, e + 3)
        THEN e + 3 + Len(text) ELSE 0

\* cleaned.replace(/\[([^\]]+)\]\(\1\)/g, '$1')
RECURSIVE SameLinks(_, _)
SameLinks(s, k) ==
    LET hits == {j \in k..Len(s) : SameLinkEnd(s, j) # 0}
    IN  IF hits = {} THEN SubSeq(s, k, Len(s))
        ELSE LET j == MinOf(hits)
             IN  SubSeq(s, k, j - 1)
                 \o SubSeq(s, j + 1, RunEndNotIn(s, {"]"}, j + 1))
                 \o SameLinks(s, SameLinkEnd(s, j) + 1)

\* /\\*\\*\\*([^*]+)\\*\\*\\*/g -> '**$1**' matches every run of characters
\* other than '*', as the strong and emphasis patterns of the converter do
removeRedundancy(text) ==
    OptMapLines("emptySection",
        SameLinks(WrapRuns(CollapseNewlines(text, 1), 1, <<"*", "*">>), 1), 1)


\* currentContext.slice(0, level - 1) followed by
\* currentContext[level - 1] = title; an index the assignment skips is a
\* hole, which join() renders as the empty text
RECURSIVE PadTo(_, _)
PadTo(ctx, n) == IF Len(ctx) >= n THEN ctx ELSE PadTo(Append(ctx, <<>>), n)

UpdateContext(ctx, level, title) ==
    Append(PadTo(SubSeq(ctx, 1, MinOf({level - 1, Len(ctx)})), level - 1), title)

\* the for-loop of addContextHeaders over lines[k..] with context stack ctx
RECURSIVE ContextLoop(_, _, _)
ContextLoop(ls, k, ctx) ==
    IF k > Len(ls) THEN <<>>
    ELSE LET headerMatch == HeaderMatch(ls[k])
             next == UpdateContext(ctx, headerMatch.level, headerMatch.title)
         IN  IF ~headerMatch.ok THEN <<ls[k]>> \o ContextLoop(ls, k + 1, ctx)
             ELSE IF headerMatch.level > 2 /\ Len(next) > 1
             THEN << Repeat("#", headerMatch.level) \o <<" ">> \o headerMatch.title,
                     <<>>,
                     <<"*", "C", "o", "n", "t", "e", "x", "t", ":", " ">>
                        \o Join(SubSeq(next, 1, Len(next) - 1), <<" ", "(arrow)", " ">>)
                        \o <<"*">>,
                     <<>> >>
                  \o ContextLoop(ls, k + 1, next)
             ELSE <<ls[k]>> \o ContextLoop(ls, k + 1, next)

addContextHeaders(text) == Join(ContextLoop(Split(text, BSN), 1, <<>>), BSN)

Fence == <<BT, BT, BT>>

\* where the fence that closes the block opened at j stands (lazy: the first
\* line start after the opening that holds a fence), 0 for none
FenceClose(s, j) ==
    LET closes == {c \in (j + 5)..Len(s) : AtLineStart(s, c) /\ MatchAt(s, Fence, c)}
    IN  IF AtLineStart(s, j) /\ MatchAt(s, <<BT, BT, BT, BS, "n">>, j) /\ closes # {}
        THEN MinOf(closes) ELSE 0

\* the callback of the code-block replace
FenceCallback(match, code) ==
    LET firstLine == Split(code, BSN)[1]
    IN  IF Includes(firstLine, <<"#">>) \/ Includes(firstLine, <<"/", "/">>)
        THEN Fence
             \o (IF Includes(firstLine, <<"#">>) THEN <<"b", "a", "s", "h">>
                 ELSE <<"j", "a", "v", "a", "s", "c", "r", "i", "p", "t">>)
             \o BSN \o code \o Fence
        ELSE match

\* optimized.replace(/^```\\n(.*?)^```/gms, callback)
RECURSIVE LanguageHints(_, _)
LanguageHints(s, k) ==
    LET hits == {j \in k..Len(s) : FenceClose(s, j) # 0}
    IN  IF hits = {} THEN SubSeq(s, k, Len(s))
        ELSE LET j == MinOf(hits)
                 c == FenceClose(s, j)
             IN  SubSeq(s, k, j - 1)
                 \o FenceCallback(SubSeq(s, j, c + 2), SubSeq(s, j + 5, c - 1))
                 \o LanguageHints(s, c + 3)

\* optimized.replace(/^\\n+---\\n+/, ''): at the start of the text, a
\* backslash, letters n, '---', a backslash, letters n
optimizeFormatting(text) ==
    LET s == OptMapLines("separator", OptMapLines("dash", LanguageHints(text, 1), 1), 1)
        e1 == RunEnd(s, "n", 2)
        e2 == RunEnd(s, "n", e1 + 5)
    IN  IF /\ Len(s) >= 1 /\ s[1] = BS
           /\ e1 >= 2
           /\ MatchAt(s, <<"-", "-", "-", BS>>, e1 + 1)
           /\ e2 >= e1 + 5
        THEN SubSeq(s, e2 + 1, Len(s))
        ELSE s

\* Step 1: clean and simplify structure
OptSimplify ==
    /\ opc = "step1"
    /\ optimized' = IF opts.simplifyStructure THEN simplifyStructure(optimized)
                    ELSE optimized
    /\ opc' = "step2"
    /\ UNCHANGED <<optMarkdown, opts, pass, firstOutput>>
    /\ UNCHANGED <<chunkVars, convVars, toolVars>>

\* Step 2: remove redundancy
OptRedundancy ==
    /\ opc = "step2"
    /\ optimized' = IF opts.removeRedundancy THEN removeRedundancy(optimized)
                    ELSE optimized
    /\ opc' = "step3"
    /\ UNCHANGED <<optMarkdown, opts, pass, firstOutput>>
    /\ UNCHANGED <<chunkVars, convVars, toolVars>>

\* Step 3: add context headers
OptContext ==
    /\ opc = "step3"
    /\ optimized' = IF opts.addContextHeaders THEN addContextHeaders(optimized)
                    ELSE optimized
    /\ opc' = "step4"
    /\ UNCHANGED <<optMarkdown, opts, pass, firstOutput>>
    /\ UNCHANGED <<chunkVars, convVars, toolVars>>

\* Step 4: optimize formatting, and return
OptFormat ==
    /\ opc = "step4"
    /\ optimized' = optimizeFormatting(optimized)
    /\ firstOutput' = IF pass = 1 THEN optimized' ELSE firstOutput
    /\ opc' = "returned"
    /\ UNCHANGED <<optMarkdown, opts, pass>>
    /\ UNCHANGED <<chunkVars, convVars, toolVars>>

MaxOptFragments == 2
MaxPasses == 2

\* optimize is called on what it returned, with the same options
OptAgain ==
    /\ opc = "returned"
    /\ pass < MaxPasses
    /\ optMarkdown' = optimized
    /\ pass' = pass + 1
    /\ opc' = "step1"
    /\ UNCHANGED <<opts, optimized, firstOutput>>
    /\ UNCHANGED <<chunkVars, convVars, toolVars>>

\* fragments of Markdown: a word, a link whose text is a link to itself,
\* headings of depth 1, 3 and 5 as HeaderMatch recognises them, a heading
\* of depth 5 with a space, a list item as the bullet pattern recognises it,
\* and a lettered list item
OptFragments ==
    { <<"a">>,
      <<"[", "x", "]", "(", "[", "x", "]", "(", "x", ")", ")">>,
      <<"#", BS, "s", "T">>,
      <<"#", "#", "#", BS, "s", "U">>,
      <<"#", "#", "#", "#", "#", BS, "s", "V">>,
      <<"#", "#", "#", "#", "#", " ", "V">>,
      <<"-", BS, "s", "i">>,
      <<"a", ")", " ", "b">> }

OptDocs ==
    LET RECURSIVE OptDocsOfLen(_)
        OptDocsOfLen(n) ==
            IF n <= 1 THEN OptFragments
            ELSE {d \o sep \o f : d \in OptDocsOfLen(n - 1),
                                  sep \in {<<NL>>, BSNBSN}, f \in OptFragments}
    IN  {<<>>} \cup UNION {OptDocsOfLen(n) : n \in 1..MaxOptFragments}

InitOptimize ==
    /\ opc = "step1"
    /\ optMarkdown \in OptDocs
    /\ opts \in [simplifyStructure : BOOLEAN, removeRedundancy : BOOLEAN,
                  addContextHeaders : BOOLEAN]
    /\ optimized = optMarkdown
    /\ pass = 1
    /\ firstOutput = <<>>
    /\ ChunkIdle
    /\ ConvIdle
    /\ ToolIdle

NextOptimize ==
    \/ OptSimplify
    \/ OptRedundancy
    \/ OptContext
    \/ OptFormat
    \/ OptAgain

SpecOptimize == InitOptimize /\ [][NextOptimize]_vars

\* C9: a second pass of optimize with the same options returns what the
\* first pass returned.
C9_Idempotent ==
    (opc = "returned" /\ pass = 2) => optimized = firstOutput

----------------------------------------------------------------------------
(* Claims about empty input, errors and identifiers *)

\* C11: for the empty text chunkContent returns the empty sequence of
\* chunks.
C11_EmptyInput ==
    (cpc = "done" /\ markdown = <<>>) => returned = <<>>

\* a text is a sequence of characters
IsText(s) == s \in Seq(STRING)

\* C12: no step of convertToMarkdown throws, whatever the markup: the call
\* never ends in an error, no heading is asked for a negative number of
\* '#', and what it returns is a text.
C12_NeverThrows ==
    /\ vpc # "failed"
    /\ \A k \in 1..Len(result.sections) :
            result.sections[k].level + (IF result.title # <<>> THEN 1 ELSE 0) >= 0
    /\ vpc = "returned" => IsText(postProcessed)

\* C12 witness: a call has returned for a text with a directive-open line
\* that parseDirective's own pattern rejects.
C12_Witness ==
    /\ vpc = "returned"
    /\ \E k \in 1..Len(result.directives) : result.directives[k].name = <<>>

\* the depth of the Markdown heading a line is: the number of '#' before
\* the space, 0 when the line is no heading
HeadingDepth(line) ==
    LET h == RunEnd(line, "#", 1)
    IN  IF h >= 1 /\ h <= 6 /\ h < Len(line) /\ line[h + 1] = " " THEN h ELSE 0

\* C13: with simplifyStructure enabled, no heading of what optimize returns
\* is deeper than 4.
C13_HeadingDepth ==
    (opc = "returned" /\ opts.simplifyStructure) =>
        \A k \in 1..Len(Split(optimized, <<NL>>)) :
            HeadingDepth(Split(optimized, <<NL>>)[k]) <= 4

\* C14: the ids of the chunks of one call are chunk-1, chunk-2, ... in the
\* order of emission, hence pairwise distinct, and the counter stands at the
\* number of chunks the call has made; this holds for a later call as for
\* the first.
C14_ChunkIds ==
    /\ cpc \in {"loop", "done"} =>
        /\ chunkIndex = Len(AllChunks)
        /\ \A k \in 1..Len(AllChunks) : AllChunks[k].id = ChunkPrefix \o Digits(k)
    /\ cpc = "done" =>
        /\ \A k \in 1..Len(returned) : returned[k].id = ChunkPrefix \o Digits(k)
        /\ \A j, k \in 1..Len(returned) : j # k => returned[j].id # returned[k].id

\* C14 witness: a later call on the same optimizer has returned several
\* chunks.
C14_Witness ==
    /\ cpc = "done"
    /\ chunkCalls = 2
    /\ Len(returned) >= 2

----------------------------------------------------------------------------
(* The tool handlers of index.ts and the commands of cli.ts *)

MaxBatch == 2

\* the error a read or write raises (FileHandler.readFile, ensureDirectory,
\* writeFile): convert-url wraps the body of its loop in try/catch, logs the
\* error and goes on with the next page; the tools convert_sphinx_file and
\* convert_sphinx_directory and the directory branch of convert-local have
\* no try inside their loop and leave it for the outer catch, which answers
\* the error
Throw ==
    IF entry = "convert-url"
    THEN /\ hpc' = "next"
         /\ docPos' = docPos + 1
         /\ response' = response
    ELSE /\ hpc' = "failed"
         /\ docPos' = docPos
         /\ response' = [isError |-> TRUE, converted |-> 0, markdown |-> <<>>]

\* const content = await fileHandler.readFile(...) and the call
\* convertToMarkdown(content, path): the third parameter, options, is never
\* passed and takes its default {}
ReadDocument ==
    /\ hpc = "next"
    /\ docPos < Len(documents)
    /\ IF documents[docPos + 1].fault = "read"
       THEN /\ Throw
            /\ UNCHANGED <<vpc, content, options, preprocessed, rstLines, result,
                           currentSection, idx, rendered, postProcessed, opc>>
       ELSE /\ content' = documents[docPos + 1].text
            /\ options' = EmptyOptions
            /\ vpc' = "called"
            /\ preprocessed' = <<>>
            /\ rstLines' = <<>>
            /\ result' = EmptyResult
            /\ currentSection' = 0
            /\ idx' = 0
            /\ rendered' = <<>>
            /\ postProcessed' = <<>>
            /\ opc' = "idle"
            /\ hpc' = "converting"
            /\ UNCHANGED <<docPos, response>>
    /\ UNCHANGED <<docReferences, crossReferences, calls>>
    /\ UNCHANGED <<optMarkdown, opts, optimized, pass, firstOutput>>
    /\ UNCHANGED <<entry, args, documents, written, chunkVars, crawlVars>>

\* if (options.optimize !== false) optimize(markdown, {chunkSize, ...}): no
\* handler passes simplifyStructure, removeRedundancy or addContextHeaders,
\* so the defaults of the optimizer apply
OptimizeDocument ==
    /\ hpc = "converting"
    /\ vpc = "returned"
    /\ IF "optimize" \in DOMAIN args /\ args.optimize = FALSE
       THEN UNCHANGED optVars
       ELSE /\ optMarkdown' = postProcessed
            /\ optimized' = postProcessed
            /\ opts' = [simplifyStructure |-> TRUE, removeRedundancy |-> TRUE,
                        addContextHeaders |-> TRUE]
            /\ pass' = 1
            /\ opc' = "step1"
            /\ firstOutput' = <<>>
    /\ hpc' = "optimizing"
    /\ UNCHANGED <<entry, args, documents, docPos, written, response>>
    /\ UNCHANGED <<chunkVars, convVars, crawlVars>>

\* optimizedMarkdown / finalContent
FinalContent == IF opc = "returned" THEN optimized ELSE postProcessed

\* ensureDirectory and writeFile; convert_sphinx_file writes only when the
\* request names an outputPath
WriteDocument ==
    /\ hpc = "optimizing"
    /\ opc \in {"idle", "returned"}
    /\ IF entry = "convert_sphinx_file" /\ "outputPath" \notin DOMAIN args
       THEN /\ hpc' = "next"
            /\ docPos' = docPos + 1
            /\ UNCHANGED <<written, response>>
       ELSE IF documents[docPos + 1].fault = "write"
       THEN /\ Throw
            /\ UNCHANGED written
       ELSE /\ written' = written \cup {[doc |-> docPos + 1, text |-> FinalContent]}
            /\ hpc' = "next"
            /\ docPos' = docPos + 1
            /\ UNCHANGED response
    /\ UNCHANGED <<entry, args, documents>>
    /\ UNCHANGED <<chunkVars, convVars, optVars, crawlVars>>

\* the answer after the last document: convert_sphinx_file ends its text
\* with the converted content, the batch handlers report what they
\* converted
Respond ==
    /\ hpc = "next"
    /\ docPos = Len(documents)
    /\ response' = [isError |-> FALSE,
                    converted |-> Cardinality(written),
                    markdown |-> IF entry = "convert_sphinx_file"
                                 THEN FinalContent ELSE <<>>]
    /\ hpc' = "responded"
    /\ UNCHANGED <<entry, args, documents, docPos, written>>
    /\ UNCHANGED <<chunkVars, convVars, optVars, crawlVars>>

\* a valid request.  A document is its text and what fails for it, if
\* anything; the options hold each key or lack it.  convert_sphinx_file has
\* one document and may carry outputPath and preserveReferences; the pages
\* of convert-url are already in memory, so reading them cannot fail
InitServer ==
    /\ hpc = "next"
    /\ entry \in {"convert_sphinx_file", "convert_sphinx_directory",
                  "convert-local", "convert-url"}
    /\ LET BatchDocuments == [text : CallDocs, fault : {"none", "read", "write"}]
           RequestOptions(keys) == UNION {[D -> BOOLEAN] : D \in SUBSET keys}
       IN  IF entry = "convert_sphinx_file"
           THEN /\ args \in RequestOptions({"optimize", "preserveReferences",
                                            "outputPath"})
                /\ "outputPath" \in DOMAIN args => args.outputPath
                /\ documents \in {<<d>> : d \in BatchDocuments}
           ELSE /\ args \in RequestOptions({"optimize"})
                /\ documents \in UNION {[1..n -> BatchDocuments] : n \in 0..MaxBatch}
                /\ entry = "convert-url" =>
                        \A k \in 1..Len(documents) : documents[k].fault # "read"
    /\ docPos = 0
    /\ written = {}
    /\ response = Null
    /\ CrawlIdle
    /\ ChunkIdle
    /\ ConvIdle
    /\ OptIdle

NextServer ==
    \/ ReadDocument
    \/ Preprocess
    \/ StartParse
    \/ ParseHeader
    \/ ParseDirective
    \/ ParseContent
    \/ Render
    \/ PostProcess
    \/ OptimizeDocument
    \/ OptSimplify
    \/ OptRedundancy
    \/ OptContext
    \/ OptFormat
    \/ WriteDocument
    \/ Respond

SpecServer == InitServer /\ [][NextServer]_vars

----------------------------------------------------------------------------
(* crawlSphinxSite of cli.ts, one action per iteration of its loop *)

\* while (queue.length > 0 && pages.length < 50)
PageLimit == 50

MaxLinks == 60
MaxDepth == 2

\* what axios.get(url) and cheerio find.  A URL is its hostname and its
\* pathname; a link is the URL that new URL(href, url) resolves it to, or
\* Null when the href is no URL.  "wide" is an index that links to
\* MaxLinks pages, to another host, to a file and out of the documentation
\* path, with every seventh page failing; "chain" links each page to the
\* next one and to itself; "down" answers nothing
SiteResponse(s, url) ==
    LET Page(k) == [hostname |-> "docs",
                    pathname |-> <<"/", "d", "/", "p">> \o Digits(k)
                                 \o <<".", "h", "t", "m", "l">>]
        Index == [hostname |-> "docs", pathname |-> <<"/", "d", "/">>]
        Elsewhere == [hostname |-> "elsewhere",
                      pathname |-> <<"/", "d", "/", "x", ".", "h", "t", "m", "l">>]
        File == [hostname |-> "docs", pathname |-> <<"/", "d", "/", "a", ".", "p", "d", "f">>]
        Outside == [hostname |-> "docs", pathname |-> <<"/", "b", "/", "q">>]
        number == {k \in 1..MaxLinks : Page(k) = url}
        k == IF number = {} THEN 0 ELSE MinOf(number)
        failure == [ok |-> FALSE, h1 |-> <<>>, title |-> <<>>, main |-> <<>>,
                    body |-> <<>>, links |-> <<>>]
    IN  IF s = "down" \/ url.hostname # "docs" THEN failure
        ELSE IF k = 0
        THEN [ok |-> TRUE, h1 |-> <<>>, title |-> <<>>, main |-> <<>>,
              body |-> <<" ", "a", BS, "s", "s", "b", BS, "n", BS, BS, "n", "c">>,
              links |-> IF url.pathname = Outside.pathname THEN <<>>
                        ELSE IF s = "wide"
                        THEN <<Elsewhere, File, Outside, Null>>
                             \o [j \in 1..MaxLinks |-> Page(j)]
                        ELSE <<Page(1)>>]
        ELSE IF s = "wide"
        THEN IF k % 7 = 0 THEN failure
             ELSE [ok |-> TRUE, h1 |-> <<"P">>, title |-> <<"T">>, main |-> <<"c">>,
                   body |-> <<"d">>, links |-> <<Index, Elsewhere>>]
        ELSE [ok |-> TRUE, h1 |-> <<" ">>, title |-> <<"T">>, main |-> <<"c">>,
              body |-> <<"d">>,
              links |-> IF k < MaxLinks THEN <<Page(k + 1), url>> ELSE <<url>>]

\* the filter of the links that queue.push takes, with every link followed
\* whatever its hostname
FollowLink_AnyHost(link, base) ==
    /\ link # Null
    /\ Includes(link.pathname, Split(base.pathname, <<"/">>)[2])
    /\ \/ MatchAt(link.pathname, <<".", "h", "t", "m", "l">>, Len(link.pathname) - 4)
       \/ ~Includes(link.pathname, <<".">>)

\* linkUrlObj.hostname === baseUrlObj.hostname &&
\* linkUrlObj.pathname.includes(baseUrlObj.pathname.split('/')[1] || '') &&
\* (linkUrlObj.pathname.endsWith('.html') || !linkUrlObj.pathname.includes('.'));
\* a href that is no URL throws inside the try and is ignored
FollowLink(link, base) ==
    /\ link # Null
    /\ link.hostname = base.hostname
    /\ Includes(link.pathname, Split(base.pathname, <<"/">>)[2])
    /\ \/ MatchAt(link.pathname, <<".", "h", "t", "m", "l">>, Len(link.pathname) - 4)
       \/ ~Includes(link.pathname, <<".">>)

\* if (visited.has(url) || depth > maxDepth) continue
CrawlSkip ==
    /\ kpc = "crawling"
    /\ Len(queue) > 0 /\ Len(pages) < PageLimit
    /\ Head(queue).url \in visited \/ Head(queue).depth > maxDepth
    /\ queue' = Tail(queue)
    /\ UNCHANGED <<kpc, baseUrl, maxDepth, site, visited, pages, fetched>>
    /\ UNCHANGED <<chunkVars, convVars, optVars>>
    /\ UNCHANGED <<hpc, entry, args, documents, docPos, written, response>>

\* the request is answered: the page is pushed with its title, its cleaned
\* content and its path, and below maxDepth the links that pass the filter
\* join the queue in document order.  The content is cleaned by
\* replace(/\\s+/g, ' '), which takes a backslash and letters s, and
\* replace(/\\n\\s*\\n/g, '\\n\\n'); the path loses /\\.html?$/, a
\* backslash, one character and htm or html at its end, then a leading '/'
CrawlFetch ==
    /\ kpc = "crawling"
    /\ Len(queue) > 0 /\ Len(pages) < PageLimit
    /\ LET url == Head(queue).url
           depth == Head(queue).depth
           resp == SiteResponse(site, url)
           notEmptyOr(a, b) == IF a # <<>> THEN a ELSE b
           text == notEmptyOr(Trim(resp.main), Trim(resp.body))
           spaced == Join(SplitWords(text), <<" ">>)
           p == url.pathname
           n == Len(p)
           ext == IF n >= 6 /\ SubSeq(p, n - 3, n) = <<"h", "t", "m", "l">> THEN 6
                  ELSE IF n >= 5 /\ SubSeq(p, n - 2, n) = <<"h", "t", "m">> THEN 5
                  ELSE 0
           cut == IF /\ ext > 0
                     /\ p[n - ext + 1] = BS
                     /\ ~IsTerminator(p[n - ext + 2])
                  THEN SubSeq(p, 1, n - ext) ELSE p
           followed == SelectSeq(resp.links, LAMBDA l : FollowLink(l, baseUrl))
       IN  /\ ~(url \in visited \/ depth > maxDepth)
           /\ resp.ok
           /\ pages' = Append(pages,
                  [url |-> url,
                   title |-> notEmptyOr(Trim(resp.h1),
                                        notEmptyOr(Trim(resp.title),
                                            <<"U", "n", "t", "i", "t", "l", "e", "d">>)),
                   content |-> Trim(ReplaceAll(spaced, <<BS, "n", BS, BS, "n">>, BSNBSN)),
                   path |-> IF cut # <<>> /\ cut[1] = "/" THEN Tail(cut) ELSE cut])
           /\ queue' = Tail(queue) \o
                  (IF depth < maxDepth
                   THEN [j \in 1..Len(followed) |->
                            [url |-> followed[j], depth |-> depth + 1]]
                   ELSE <<>>)
           /\ visited' = visited \cup {url}
           /\ fetched' = Append(fetched, url)
    /\ UNCHANGED <<kpc, baseUrl, maxDepth, site>>
    /\ UNCHANGED <<chunkVars, convVars, optVars>>
    /\ UNCHANGED <<hpc, entry, args, documents, docPos, written, response>>

\* the request throws: the catch logs it and the loop goes on
CrawlFail ==
    /\ kpc = "crawling"
    /\ Len(queue) > 0 /\ Len(pages) < PageLimit
    /\ LET url == Head(queue).url
       IN  /\ ~(url \in visited \/ Head(queue).depth > maxDepth)
           /\ ~SiteResponse(site, url).ok
           /\ visited' = visited \cup {url}
           /\ fetched' = Append(fetched, url)
    /\ queue' = Tail(queue)
    /\ UNCHANGED <<kpc, baseUrl, maxDepth, site, pages>>
    /\ UNCHANGED <<chunkVars, convVars, optVars>>
    /\ UNCHANGED <<hpc, entry, args, documents, docPos, written, response>>

\* the loop ends: return pages
CrawlReturn ==
    /\ kpc = "crawling"
    /\ ~(Len(queue) > 0 /\ Len(pages) < PageLimit)
    /\ kpc' = "returned"
    /\ UNCHANGED <<baseUrl, maxDepth, site, queue, visited, pages, fetched>>
    /\ UNCHANGED <<chunkVars, convVars, optVars>>
    /\ UNCHANGED <<hpc, entry, args, documents, docPos, written, response>>

\* crawlSphinxSite(url, parseInt(options.maxDepth)) is called: the queue
\* holds the start URL at depth 0
InitCrawl ==
    /\ kpc = "crawling"
    /\ baseUrl \in {[hostname |-> "docs", pathname |-> <<"/", "d", "/">>],
                     [hostname |-> "docs", pathname |-> <<"/">>]}
    /\ maxDepth \in (-1)..MaxDepth
    /\ site \in {"wide", "chain", "down"}
    /\ queue = <<[url |-> baseUrl, depth |-> 0]>>
    /\ visited = {}
    /\ pages = <<>>
    /\ fetched = <<>>
    /\ hpc = "idle"
    /\ entry = "convert-url"
    /\ args = <<>>
    /\ documents = <<>>
    /\ docPos = 0
    /\ written = {}
    /\ response = Null
    /\ ChunkIdle
    /\ ConvIdle
    /\ OptIdle

NextCrawl ==
    \/ CrawlSkip
    \/ CrawlFetch
    \/ CrawlFail
    \/ CrawlReturn

SpecCrawl == InitCrawl /\ [][NextCrawl]_vars

\* C15: convert_sphinx_file preserves :doc: and :ref: references as links
\* in the returned content when preserveReferences is omitted or true, and
\* reduces them to plain text when it is false.
C15_PreserveReferences ==
    (/\ hpc = "responded"
     /\ entry = "convert_sphinx_file"
     /\ \E k \in 1..Len(result.sections) :
            Includes(result.sections[k].content, ConvFragment.docRef[1])) =>
        Includes(response.markdown, <<"]", "(">>) =
            ("preserveReferences" \notin DOMAIN args \/ args.preserveReferences)

\* C16: in a batch a failure while reading or converting one document
\* aborts only that document: when the handler has ended, every document
\* that can be read and written has been written.
C16_FailureIsolation ==
    (hpc \in {"responded", "failed"} /\ entry # "convert_sphinx_file") =>
        \A k \in 1..Len(documents) :
            documents[k].fault = "none" => \E w \in written : w.doc = k

----------------------------------------------------------------------------
(* Claims about the structural parser and the renderer *)

\* C17: when the input starts with a line of content and has a section
\* header further on, the parsed document has a section titled
\* "Introduction" at level 1 whose content holds that line.
C17_Introduction ==
    (/\ vpc \in {"rendered", "returned"}
     /\ Len(rstLines) >= 1
     /\ IsContentAt(rstLines, 0)
     /\ Trim(rstLines[1]) # <<>>
     /\ \E k \in 1..(Len(rstLines) - 1) : IsHeaderAt(rstLines, k)) =>
        \E k \in 1..Len(result.sections) :
            /\ result.sections[k].title = Introduction
            /\ result.sections[k].level = 1
            /\ Includes(result.sections[k].content, rstLines[1])

\* the header the scan loop stands on, if it stands on one
AtHeader == vpc = "parsing" /\ idx < Len(rstLines) /\ IsHeaderAt(rstLines, idx)

\* C18: the first level-1 header the parser meets becomes the title and is
\* not added to sections; every other header, a later level-1 header
\* included, appends exactly one section with its text and level; no other
\* step of the loop touches the title or the number of sections, the title
\* is set at most once, and sections follow the order of the source.
C18_TitleOnce ==
    /\ [](\A j, k \in 1..Len(result.sections) :
            j < k => result.sections[j].lineStart < result.sections[k].lineStart)
    /\ [][vpc = "parsing" =>
            /\ result.title # <<>> => result'.title = result.title
            /\ IF AtHeader
               THEN IF result.title = <<>> /\ getHeaderLevel(rstLines[idx + 2][1]) = 1
                    THEN /\ result'.title = Trim(rstLines[idx + 1])
                         /\ result'.sections = result.sections
                    ELSE /\ result'.title = result.title
                         /\ Len(result'.sections) = Len(result.sections) + 1
                         /\ SubSeq(result'.sections, 1, Len(result.sections)) = result.sections
                         /\ result'.sections[Len(result'.sections)].title = Trim(rstLines[idx + 1])
                         /\ result'.sections[Len(result'.sections)].level =
                                getHeaderLevel(rstLines[idx + 2][1])
               ELSE /\ result'.title = result.title
                    /\ Len(result'.sections) = Len(result.sections)]_vars

\* C18 witness: the parser has finished a document whose title is set and
\* whose later level-1 header became a section.
C18_Witness ==
    /\ vpc \in {"rendered", "returned"}
    /\ result.title # <<>>
    /\ \E k \in 1..Len(result.sections) : result.sections[k].level = 1

\* C19: the heading rendered for a section has at most 6 '#': its depth is
\* the section's level, plus 1 under a title, clamped to 6.
C19_DepthClamped ==
    vpc \in {"rendered", "returned"} =>
        /\ ~Includes(rendered, Repeat("#", 7))
        /\ \A k \in 1..Len(result.sections) :
            Includes(rendered,
                     Repeat("#", MinOf({6, result.sections[k].level
                                            + (IF result.title # <<>> THEN 1 ELSE 0)}))
                     \o <<" ">> \o result.sections[k].title)

\* the block of a directive as the claim describes it, on lines indexed
\* from 0: option lines (":name:" after optional white space), one optional
\* blank line, then the run of blank or indented lines
IsOptionLine(line) ==
    LET t == Trim(line)
    IN  /\ Len(t) >= 3
        /\ t[1] = ":"
        /\ \E e \in 3..Len(t) : t[e] = ":" /\ \A j \in 2..(e - 1) : t[j] \in NameChars

RECURSIVE AfterOptionLines(_, _)
AfterOptionLines(ls, k) ==
    IF k < Len(ls) /\ IsOptionLine(ls[k + 1]) THEN AfterOptionLines(ls, k + 1) ELSE k

RECURSIVE AfterBodyRun(_, _)
AfterBodyRun(ls, k) ==
    IF k < Len(ls) /\ (Trim(ls[k + 1]) = <<>> \/ IsWhite(ls[k + 1][1]))
    THEN AfterBodyRun(ls, k + 1) ELSE k

DirectiveBlockEnd(ls, k) ==
    LET o == AfterOptionLines(ls, k + 1)
        b == IF o < Len(ls) /\ Trim(ls[o + 1]) = <<>> THEN o + 1 ELSE o
    IN  AfterBodyRun(ls, b)

\* C20: the step the parser takes on a directive-open line appends nothing
\* to any section's content and moves the cursor to the first non-blank,
\* non-indented line after the directive's block, or to the end of input.
C20_DirectiveBlock ==
    [][(vpc = "parsing" /\ idx < Len(rstLines) /\ IsDirectiveAt(rstLines, idx)) =>
            /\ result'.sections = result.sections
            /\ idx' = DirectiveBlockEnd(rstLines, idx)]_vars

----------------------------------------------------------------------------
(* Claims about pre-processing, directives and the scan loop *)

\* the directives the pre-processing pass is to rewrite
RewrittenNames ==
    {AdmonitionTypes[t] : t \in 1..4} \cup {<<"t", "o", "c", "t", "r", "e", "e">>}

\* C21: every admonition and toctree directive of the input is rewritten
\* before structural parsing: the text the parser gets holds none of their
\* markers, and the parser records no directive with one of their names.
C21_AdmonitionsRewritten ==
    vpc \in {"preprocessed", "parsing", "rendered", "returned"} =>
        /\ \A n \in RewrittenNames :
                ~Includes(preprocessed, <<".", ".", " ">> \o n \o <<":", ":">>)
        /\ \A k \in 1..Len(result.directives) :
                result.directives[k].name \notin RewrittenNames

----------------------------------------------------------------------------
(* Claims about the optimizer and the chunker *)

\* the lines of a text addContextHeaders works on, and those among them
\* that are headings deeper than 2 with an ancestor on the stack: an earlier
\* heading of smaller depth that no heading in between has popped
ContextLines(text) == Split(text, BSN)

HasAncestor(ls, k) ==
    \E j \in 1..(k - 1) :
        /\ HeaderMatch(ls[j]).ok
        /\ HeaderMatch(ls[j]).level < HeaderMatch(ls[k]).level
        /\ \A m \in (j + 1)..(k - 1) :
                HeaderMatch(ls[m]).ok => HeaderMatch(ls[m]).level > HeaderMatch(ls[j]).level

IsBreadcrumb(line) ==
    MatchAt(line, <<"*", "C", "o", "n", "t", "e", "x", "t", ":", " ">>, 1)

\* C22: with addContextHeaders alone enabled, a breadcrumb is inserted for a
\* heading exactly when its depth is greater than 2 and an ancestor heading
\* is on the stack: the text after the step has one breadcrumb line for
\* each such heading of the input and no other.
C22_Breadcrumbs ==
    (/\ opc = "step4"
     /\ pass = 1
     /\ opts.addContextHeaders
     /\ ~opts.simplifyStructure
     /\ ~opts.removeRedundancy) =>
        Cardinality({k \in 1..Len(ContextLines(optimized)) :
                        IsBreadcrumb(ContextLines(optimized)[k])})
        = Cardinality({k \in 1..Len(ContextLines(optMarkdown)) :
                        /\ HeaderMatch(ContextLines(optMarkdown)[k]).ok
                        /\ HeaderMatch(ContextLines(optMarkdown)[k]).level > 2
                        /\ HasAncestor(ContextLines(optMarkdown), k)})

\* what a context says of chunk k of the returned sequence
StatesPosition(k) ==
    MatchAt(returned[k].context,
            <<"D", "o", "c", "u", "m", "e", "n", "t", " ", "p", "a", "r", "t", " ">>
            \o Digits(k) \o <<" ", "o", "f", " ">> \o Digits(Len(returned)), 1)

NamesPrevious(k) ==
    Includes(returned[k].context, <<"P", "r", "e", "v", "i", "o", "u", "s", ":", " ">>)

NamesNext(k) ==
    Includes(returned[k].context, <<"N", "e", "x", "t", ":", " ">>)

NamesNeighbours(k) ==
    /\ NamesPrevious(k) <=> k > 1
    /\ k > 1 => Includes(returned[k].context,
                         <<"P", "r", "e", "v", "i", "o", "u", "s", ":", " ", "\"">>
                         \o returned[k - 1].title \o <<"\"">>)
    /\ NamesNext(k) <=> k < Len(returned)
    /\ k < Len(returned) =>
            Includes(returned[k].context,
                     <<"N", "e", "x", "t", ":", " ", "\"">>
                     \o returned[k + 1].title \o <<"\"">>)

\* C23 as stated: every returned chunk's context states its position i of
\* n and names the previous title exactly when i > 1 and the next title
\* exactly when i < n.
C23_Original ==
    cpc = "done" =>
        \A k \in 1..Len(returned) : StatesPosition(k) /\ NamesNeighbours(k)

\* C23: when chunkContent returns more than one chunk, every chunk's
\* context states its position i of n and names the previous title exactly
\* when i > 1 and the next title exactly when i < n; the context of a single
\* returned chunk is empty.
C23_Context ==
    cpc = "done" =>
        IF Len(returned) > 1
        THEN \A k \in 1..Len(returned) : StatesPosition(k) /\ NamesNeighbours(k)
        ELSE \A k \in 1..Len(returned) : returned[k].context = <<>>

\* C23 witness: a call has returned three chunks or more, so one of them
\* has both neighbours.
C23_Witness ==
    cpc = "done" /\ Len(returned) >= 3

\* one iteration of the loop of chunkContent over sections[sectionPos + 1]
LoopIteration ==
    cpc = "loop" /\ cpc' = "loop" /\ sectionPos' = sectionPos + 1

\* the iteration appended the section to the running chunk
Merged ==
    /\ currentChunk # Null
    /\ currentChunk' # Null
    /\ currentChunk'.id = currentChunk.id
    /\ currentChunk'.content =
            currentChunk.content \o BSNBSN \o sections[sectionPos + 1].content
    /\ chunks' = chunks

\* the iteration pushed the running chunk, if there was one, right after the
\* chunks already closed
ClosedRunning ==
    /\ Len(chunks') >= Len(chunks)
    /\ SubSeq(chunks', 1, Len(chunks)) = chunks
    /\ currentChunk # Null =>
            /\ Len(chunks') > Len(chunks)
            /\ chunks'[Len(chunks) + 1] = currentChunk
    /\ currentChunk' # Null => currentChunk'.id # IF currentChunk # Null
                                                 THEN currentChunk.id ELSE <<>>

\* C24: an iteration merges the section into the running chunk exactly when
\* a running chunk exists and its wordCount plus the section's word count is
\* at most chunkSize; otherwise the running chunk is closed.  When the
\* section alone exceeds chunkSize the closed chunk stands before every piece
\* of the section, and no running chunk is left for a later section to merge
\* into.
C24_GreedyMerge ==
    [][LoopIteration =>
        LET sectionWordCount == countWords(sections[sectionPos + 1].content)
            within == /\ currentChunk # Null
                      /\ currentChunk.wordCount + sectionWordCount <= chunkSize
            closedLen == Len(chunks) + (IF currentChunk # Null THEN 1 ELSE 0)
        IN  /\ Merged <=> within
            /\ ~within => ClosedRunning
            /\ sectionWordCount > chunkSize =>
                    /\ ~Merged
                    /\ currentChunk' = Null
                    /\ Len(chunks') = closedLen + Len(subChunks')
                    /\ \A k \in 1..Len(subChunks') :
                          /\ chunks'[closedLen + k].content = subChunks'[k].content
                          /\ chunks'[closedLen + k].metadata.chunkType = "subsection"]_vars

\* C24 witness: a running chunk was closed by an oversized section, whose
\* pieces follow it.
C24_Witness ==
    /\ cpc = "loop"
    /\ LastOversized
    /\ currentChunk = Null
    /\ Len(chunks) > Len(subChunks)
    /\ chunks[Len(chunks) - Len(subChunks)].metadata.chunkType = "section"

\* the number of maximal runs of characters that are not white space
WhitespaceTokens(text) ==
    Cardinality({k \in 1..Len(text) :
                    /\ ~IsWhite(text[k])
                    /\ (k = 1 \/ IsWhite(text[k - 1]))})

\* C25: countWords returns the number of non-empty tokens between runs of
\* white space: 0 for an empty or blank text, k for k words separated by
\* spaces or line feeds.
C25_CountWords ==
    /\ countWords(markdown) = WhitespaceTokens(markdown)
    /\ \A k \in 1..Len(sections) :
          countWords(sections[k].content) = WhitespaceTokens(sections[k].content)

(* Claims about the crawler *)

\* C26: at every step of crawlSphinxSite at most 50 pages are collected,
\* and every URL it fetches other than the start URL has the hostname of
\* the start URL.
C26_CrawlBounds ==
    kpc \in {"crawling", "returned"} =>
        /\ Len(pages) <= PageLimit
        /\ \A k \in 1..Len(fetched) :
              fetched[k] = baseUrl \/ fetched[k].hostname = baseUrl.hostname

\* C26 witness: the crawl returned with 50 pages and URLs still queued,
\* after a page that links to another host was fetched at a depth where
\* links are followed.
C26_Witness ==
    /\ kpc = "returned"
    /\ Len(pages) = PageLimit
    /\ Len(queue) > 0
    /\ maxDepth >= 2
    /\ \E k \in 1..Len(fetched) :
          /\ fetched[k] # baseUrl
          /\ \E j \in 1..Len(SiteResponse(site, fetched[k]).links) :
                LET l == SiteResponse(site, fetched[k]).links[j]
                IN  l # Null /\ l.hostname # baseUrl.hostname

(* Claims about the parser and the renderer *)

\* how many times pat occurs in s
Occurrences(s, pat) == Cardinality({j \in 1..Len(s) : MatchAt(s, pat, j)})

\* C27: every directive the parser captures is consumed exactly once by
\* the renderer: each non-empty line of its content occurs exactly once in
\* the rendered Markdown.
C27_DirectiveRendered ==
    vpc \in {"rendered", "returned"} =>
        \A k \in 1..Len(result.directives) :
            \A j \in 1..Len(result.directives[k].content) :
                result.directives[k].content[j] # <<>> =>
                    Occurrences(rendered, result.directives[k].content[j]) = 1

\* C28: every iteration of the scan loop of parseRST moves the cursor
\* forward and never past the end of the lines: by 2 on a header, by at
\* least 1 on a directive, by 1 on any other line; so the loop ends after
\* at most one iteration per line.
C28_CursorAdvances ==
    /\ [](vpc = "parsing" => idx <= Len(rstLines))
    /\ [][(vpc = "parsing" /\ vpc' = "parsing") =>
            /\ idx' > idx
            /\ IsHeaderAt(rstLines, idx) => idx' = idx + 2
            /\ IsDirectiveAt(rstLines, idx) =>
                    idx' = parseDirective(rstLines, idx).nextIndex
            /\ IsContentAt(rstLines, idx) => idx' = idx + 1]_vars

\* C28 witness: the loop has reached the end of at least four lines after
\* a header and a directive that took its indented line with it.
C28_Witness ==
    /\ vpc = "parsing"
    /\ idx = Len(rstLines)
    /\ Len(rstLines) >= 4
    /\ result.title # <<>>
    /\ \E k \in 1..Len(result.directives) : result.directives[k].content # <<>>

\* the first line of the blockquote an admonition is rewritten to
IsQuoteHead(line) ==
    \E t \in 1..4 : MatchAt(line, <<">", " ", AdmonitionEmoji[t], " ", "*", "*">>, 1)

\* C29: no line of a rewritten admonition is recognised as a header: the
\* first line of its blockquote is neither the document title nor a section
\* title.
C29_QuoteIsNoHeader ==
    vpc \in {"parsing", "rendered", "returned"} =>
        /\ ~IsQuoteHead(result.title)
        /\ \A k \in 1..Len(result.sections) : ~IsQuoteHead(result.sections[k].title)

(* Claims about the stored word counts *)

\* C30: the wordCount stored in every chunk that chunkContent returns
\* equals countWords of the chunk's content, for chunks merged from several
\* sections and for pieces of an oversized section alike.
C30_StoredWordCount ==
    cpc = "done" =>
        \A k \in 1..Len(returned) :
            returned[k].wordCount = countWords(returned[k].content)

====
